---------------------------- MODULE Spec2Model ----------------------------
(***************************************************************************)
(* A model of pymake's hand-written GNU Make tokenizer (src/sm.py): the    *)
(* ScannerIterator, the Symbol class hierarchy, the depth_checker          *)
(* decorator and the tokenizer state machines.                             *)
(*                                                                         *)
(* Text is a sequence of one-character strings.  A Python object of the    *)
(* Symbol hierarchy is a record [cls, string, token_list].  A tokenizer    *)
(* is an operator from the text and a context x = [idx, state_stack,       *)
(* depth, exc] (the scanner's position and checkpoint stack, the global    *)
(* depth counter and the exception in flight) to a result, which is a      *)
(* context together with the returned value val.  The body of a            *)
(* tokenizer's "for c in string" loop is a step operator on the record l   *)
(* of the context and the loop's locals (state, token, token_list); the    *)
(* loop applies it until the tokenizer returns or raises.  The variable     *)
(* locals holds the loop record of a tokenize_recipe call that the model   *)
(* runs step by step, and threads the threads of a program that parses     *)
(* on several threads at once.                                             *)
(***************************************************************************)
EXTENDS Integers, Sequences, FiniteSets, TLC

VARIABLES string, idx, state_stack, depth, ret, pc, locals, threads

vars == <<string, idx, state_stack, depth, ret, pc, locals, threads>>

-----------------------------------------------------------------------------
(* Module-level constants of sm.py *)

whitespace == {" ", "\t"}

eol == {"\r", "\n"}

rule_operators == {<<":">>, <<":", ":">>}

assignment_operators ==
  {<<"=">>, <<"?", "=">>, <<":", "=">>, <<":", ":", "=">>, <<"+", "=">>, <<"!", "=">>}

backslashable == {"%", " ", ":", ","}

DepthLimit == 10

-----------------------------------------------------------------------------
(* The Symbol class hierarchy *)

Symbol(cls, s, tl) == [cls |-> cls, string |-> s, token_list |-> tl]

None == Symbol("NoneType", <<>>, <<>>)

Literal(s) == Symbol("Literal", s, <<>>)

AssignOp(s) == Symbol("AssignOp", s, <<>>)

RuleOp(s) == Symbol("RuleOp", s, <<>>)

Expression(tl) == Symbol("Expression", <<>>, tl)

VarRef(tl) == Symbol("VarRef", <<>>, tl)

AssignmentExpression(tl) == Symbol("AssignmentExpression", <<>>, tl)

RuleExpression(tl) == Symbol("RuleExpression", <<>>, tl)

PrerequisiteList(tl) == Symbol("PrerequisiteList", <<>>, tl)

\* the value a tokenizer returns as a Python tuple (Expression, Operator)
Tuple(tl) == Symbol("tuple", <<>>, tl)

ExpressionClasses ==
  {"Expression", "VarRef", "AssignmentExpression", "RuleExpression",
   "PrerequisiteList", "Recipe", "RecipeList"}

SymbolClasses ==
  ExpressionClasses \cup {"Literal", "Operator", "AssignOp", "RuleOp", "Symbol"}

\* the assertions of AssignmentExpression.__init__
AssignmentExpressionAsserts(tl) ==
  /\ Len(tl) = 3
  /\ tl[1].cls \in ExpressionClasses
  /\ tl[2].cls = "AssignOp"
  /\ tl[3].cls \in ExpressionClasses

\* the assertion of Expression.__init__: every child is a Symbol
ExpressionAsserts(tl) == \A i \in 1..Len(tl) : tl[i].cls \in SymbolClasses

RECURSIVE Join(_, _)
\* sep.join(parts) for a sequence of texts
Join(parts, sep) ==
  IF parts = <<>> THEN <<>>
  ELSE IF Len(parts) = 1 THEN parts[1]
  ELSE parts[1] \o sep \o Join(Tail(parts), sep)

RECURSIVE makefile(_)
\* Symbol.makefile and its overrides in VarRef, PrerequisiteList, RecipeList
makefile(t) ==
  LET parts == [i \in 1..Len(t.token_list) |-> makefile(t.token_list[i])]
  IN  CASE t.cls \in {"Literal", "AssignOp", "RuleOp"} -> t.string
        [] t.cls = "VarRef" -> <<"$", "(">> \o Join(parts, <<>>) \o <<")">>
        [] t.cls = "PrerequisiteList" -> Join(parts, <<" ">>)
        [] t.cls = "RecipeList" -> <<"\t">> \o Join(parts, <<"\n", "\t">>)
        [] OTHER -> Join(parts, <<>>)

\* a rstrip that keeps the trailing whitespace
rstrip_nothing(s) == s

RECURSIVE rstrip(_)
\* str.rstrip(): drop trailing whitespace (every character of this model that
\* Python counts as whitespace: space, tab, newline, carriage return)
rstrip(s) ==
  IF s # <<>> /\ s[Len(s)] \in {" ", "\t", "\n", "\r"}
  THEN rstrip(SubSeq(s, 1, Len(s) - 1))
  ELSE s

-----------------------------------------------------------------------------
(* Contexts, results and exceptions *)

NoExc == "none"

Context(i, stk, d) == [idx |-> i, state_stack |-> stk, depth |-> d, exc |-> NoExc]

\* the context part of a result or of a loop record
Ctx(r) ==
  [idx |-> r.idx, state_stack |-> r.state_stack, depth |-> r.depth, exc |-> r.exc]

\* a normal return of val in context x
Return(val, x) ==
  [val |-> val, idx |-> x.idx, state_stack |-> x.state_stack,
   depth |-> x.depth, exc |-> x.exc]

\* raise exception e in context x (an exception already in flight stays)
Raise(e, x) ==
  [val |-> None, idx |-> x.idx, state_stack |-> x.state_stack,
   depth |-> x.depth, exc |-> IF x.exc = NoExc THEN e ELSE x.exc]

-----------------------------------------------------------------------------
(* ScannerIterator (x is a context or a loop record) *)

\* a pushback that leaves the scanner where it is
pushback_nothing(x) == x

\* ScannerIterator.pushback
pushback(x) ==
  IF x.exc # NoExc THEN x
  ELSE IF x.idx <= 0 THEN [x EXCEPT !.exc = "StopIteration"]
  ELSE [x EXCEPT !.idx = @ - 1]

\* ScannerIterator.push_state
push_state(x) ==
  IF x.exc # NoExc THEN x
  ELSE [x EXCEPT !.state_stack = Append(@, x.idx)]

\* a pop_state that drops the recorded position and stays where it is
pop_state_staying(x) ==
  IF x.exc # NoExc THEN x
  ELSE IF x.state_stack = <<>> THEN [x EXCEPT !.exc = "IndexError"]
  ELSE [x EXCEPT !.state_stack = SubSeq(@, 1, Len(@) - 1)]

\* ScannerIterator.pop_state (list.pop() of an empty list raises IndexError)
pop_state(x) ==
  IF x.exc # NoExc THEN x
  ELSE IF x.state_stack = <<>> THEN [x EXCEPT !.exc = "IndexError"]
  ELSE [x EXCEPT !.idx = x.state_stack[Len(x.state_stack)],
                 !.state_stack = SubSeq(@, 1, Len(@) - 1)]

\* ScannerIterator.__next__ raises StopIteration: the for loop ends
AtEnd(T, x) == x.idx >= Len(T)

\* ScannerIterator.__next__ : the context after reading one character
Advance(x) == [x EXCEPT !.idx = @ + 1]

\* ScannerIterator.lookahead does not raise StopIteration
CanLookahead(T, x) == x.idx < Len(T)

\* the character ScannerIterator.lookahead returns
lookahead(T, x) == T[x.idx + 1]

\* a next that returns the character and stays where it is
next_standing(T, x) == x

\* ScannerIterator.next: the scanner after the call
next(T, x) ==
  IF x.exc # NoExc THEN x
  ELSE IF AtEnd(T, x) THEN [x EXCEPT !.exc = "StopIteration"]
  ELSE Advance(x)

-----------------------------------------------------------------------------
(* depth_checker *)

\* a depth_checker that counts the calls but never raises NestedTooDeep
depth_enter_unchecked(x) ==
  IF x.exc # NoExc THEN x ELSE [x EXCEPT !.depth = @ + 1]

\* check_depth before the call: depth += 1; raise NestedTooDeep when > 10
depth_enter(x) ==
  IF x.exc # NoExc THEN x
  ELSE IF x.depth + 1 > DepthLimit
       THEN [x EXCEPT !.depth = @ + 1, !.exc = "NestedTooDeep"]
       ELSE [x EXCEPT !.depth = @ + 1]

\* check_depth after a normal return: depth -= 1; assert depth >= 0
\* (an exception leaves depth as it is)
depth_exit(r) ==
  IF r.exc # NoExc THEN r
  ELSE IF r.depth - 1 < 0
       THEN [r EXCEPT !.depth = @ - 1, !.exc = "AssertionError", !.val = None]
       ELSE [r EXCEPT !.depth = @ - 1]

\* depth_reset
depth_reset == 0

-----------------------------------------------------------------------------
(* The locals of a tokenizer's loop *)

\* the locals at loop entry: state = state_start, token = "", token_list = [];
\* frames holds the token_list of every suspended call of
\* tokenize_variable_ref (used by that tokenizer alone)
Locals(x) ==
  [idx |-> x.idx, state_stack |-> x.state_stack, depth |-> x.depth, exc |-> x.exc,
   state |-> "state_start", token |-> <<>>, token_list |-> <<>>,
   frames |-> <<>>, done |-> x.exc # NoExc, val |-> None]

\* state = s
Go(l, s) == [l EXCEPT !.state = s]

\* a token += c that puts the character back and starts the word again
AddToken_unread(l, c) == [l EXCEPT !.idx = @ - 1, !.state = "state_start"]

\* token += c
AddToken(l, c) == [l EXCEPT !.token = Append(@, c)]

\* token_list.append(sym)
AddSymbol(l, sym) == [l EXCEPT !.token_list = Append(@, sym)]

\* token = ""
Restart(l) == [l EXCEPT !.token = <<>>]

\* return val
Finish(l, val) == [l EXCEPT !.done = TRUE, !.val = val]

\* raise e
Throw(l, e) == [l EXCEPT !.done = TRUE, !.exc = e, !.val = None]

\* the scanner and the depth counter as a call with result r left them
AfterCall(l, r) ==
  [l EXCEPT !.idx = r.idx, !.state_stack = r.state_stack, !.depth = r.depth,
            !.exc = r.exc]

\* an exception raised by a call made in the loop body leaves the tokenizer
Settle(l) == IF l.exc # NoExc THEN Throw(l, l.exc) ELSE l

\* the iterations the loop over text T is given: every iteration reads a
\* character, and a character is read again at most once after a pushback
Fuel(T) == 2 * Len(T) + 2

\* what the tokenizer call amounts to once its loop has run; a loop that is
\* still running when its iterations are used up is reported as "Running"
Outcome(l) ==
  IF l.done THEN Return(l.val, l) ELSE Raise("Running", l)

-----------------------------------------------------------------------------
(* comment *)

\* a loop body of comment that leaves the newline in the scanner
comment_step_leaving_newline(T, l) ==
  IF l.done THEN l
  ELSE IF AtEnd(T, l) THEN Finish(l, None)
  ELSE LET c  == T[l.idx + 1]
           l1 == Advance(l)
       IN  IF l.state = "state_start"
           THEN IF c = "#" THEN Go(l1, "state_eat_comment")
                ELSE Throw(l1, "ParseError")
           ELSE IF c = "\n" THEN Finish(l, None)
                ELSE l1

comment_step(T, l) ==
  IF l.done THEN l
  ELSE IF AtEnd(T, l) THEN Finish(l, None)
  ELSE LET c  == T[l.idx + 1]
           l1 == Advance(l)
       IN  IF l.state = "state_start"
           THEN IF c = "#" THEN Go(l1, "state_eat_comment")
                ELSE Throw(l1, "ParseError")
           ELSE IF c = "\n" THEN Finish(l1, None)
                ELSE l1

RECURSIVE comment_for(_, _, _)
\* for c in string: at most n iterations
comment_for(T, l, n) ==
  IF n <= 1 THEN comment_step(T, l)
  ELSE LET half == comment_for(T, l, n \div 2)
       IN  IF half.done THEN half ELSE comment_for(T, half, n - (n \div 2))

comment(T, x) == Outcome(comment_for(T, Locals(x), Fuel(T)))

-----------------------------------------------------------------------------
(* tokenize_variable_ref.  The recursion of the tokenizer into itself      *)
(* is kept as a stack: a nested call saves the caller's token_list in      *)
(* frames and starts over with fresh locals; its return resumes the        *)
(* caller in state_in_var_ref with the returned VarRef appended.           *)

\* token_list.append( tokenize_variable_ref(string) ): the call, through
\* check_depth, with the caller's token_list already holding Literal(token)
variable_ref_call(l) ==
  LET l1 == depth_enter(l)
  IN  IF l1.exc # NoExc THEN Throw(l1, l1.exc)
      ELSE [l1 EXCEPT !.frames = Append(@, l.token_list),
                      !.state = "state_start", !.token = <<>>,
                      !.token_list = <<>>]

\* a return that splices the children of the nested reference into the
\* surrounding reference instead of keeping the nested VarRef as a child
variable_ref_return_flat(l, v) ==
  LET l1 == depth_exit([l EXCEPT !.val = v])
  IN  IF l1.exc # NoExc THEN Throw(l1, l1.exc)
      ELSE IF l1.frames = <<>> THEN Finish(l1, v)
      ELSE [l1 EXCEPT !.token_list = l1.frames[Len(l1.frames)] \o v.token_list,
                      !.token = <<>>,
                      !.state = "state_in_var_ref",
                      !.frames = SubSeq(@, 1, Len(@) - 1),
                      !.val = None]

\* return v, through check_depth, to the suspended caller if there is one
variable_ref_return(l, v) ==
  LET l1 == depth_exit([l EXCEPT !.val = v])
  IN  IF l1.exc # NoExc THEN Throw(l1, l1.exc)
      ELSE IF l1.frames = <<>> THEN Finish(l1, v)
      ELSE [l1 EXCEPT !.token_list = Append(l1.frames[Len(l1.frames)], v),
                      !.token = <<>>, !.state = "state_in_var_ref",
                      !.frames = SubSeq(@, 1, Len(@) - 1), !.val = None]

variable_ref_step(T, l) ==
  IF l.done THEN l
  ELSE IF AtEnd(T, l) THEN Throw(l, "ParseError")
  ELSE LET c  == T[l.idx + 1]
           l1 == Advance(l)
       IN
       CASE l.state = "state_start" ->
              IF c = "$" THEN Go(l1, "state_dollar")
              ELSE Throw(l1, "ParseError")
         [] l.state = "state_dollar" ->
              IF c \in {"(", "{"} THEN Go(l1, "state_in_var_ref")
              ELSE IF c = "$" THEN AddToken(l1, "$")
              ELSE IF c \notin whitespace
              THEN variable_ref_return(l1, VarRef(Append(l1.token_list,
                                                         Literal(<<c>>))))
              ELSE l1
         [] l.state = "state_in_var_ref" ->
              IF c \in {")", "}"}
              THEN variable_ref_return(l1, VarRef(Append(l1.token_list,
                                                         Literal(l1.token))))
              ELSE IF c = "$"
              THEN IF ~CanLookahead(T, l1) THEN Throw(l1, "StopIteration")
                   ELSE IF lookahead(T, l1) = "$"
                   THEN Advance(AddToken(l1, "$"))
                   ELSE variable_ref_call(
                          Settle(pushback(AddSymbol(l1, Literal(l1.token)))))
              ELSE AddToken(l1, c)

RECURSIVE variable_ref_for(_, _, _)
\* for c in string: at most n iterations
variable_ref_for(T, l, n) ==
  IF n <= 1 THEN variable_ref_step(T, l)
  ELSE LET half == variable_ref_for(T, l, n \div 2)
       IN  IF half.done THEN half
           ELSE variable_ref_for(T, half, n - (n \div 2))

tokenize_variable_ref(T, x) ==
  LET x1 == depth_enter(x)
  IN  IF x1.exc # NoExc THEN Raise(x1.exc, x1)
      ELSE Outcome(variable_ref_for(T, Locals(x1), Fuel(T)))

-----------------------------------------------------------------------------
(* What the statement tokenizers share *)

\* a jump to the variable-reference tokenizer that moves back three characters
jump_to_variable_ref_thrice(T, l, s) ==
  LET r == tokenize_variable_ref(T, Ctx(pushback(pushback(pushback(l)))))
  IN  Go(AddSymbol(AfterCall(l, r), r.val), s)

\* "restore $ + ( in the string", "jump to var_ref tokenizer":
\* string.pushback(); string.pushback();
\* token_list.append( tokenize_variable_ref(string) ); then state = s
jump_to_variable_ref(T, l, s) ==
  LET r == tokenize_variable_ref(T, Ctx(pushback(pushback(l))))
  IN  Go(AddSymbol(AfterCall(l, r), r.val), s)

\* string.pushback(); comment(string)
eat_comment(T, l) == AfterCall(l, comment(T, Ctx(pushback(l))))

-----------------------------------------------------------------------------
(* tokenize_assign_RHS *)

assign_RHS_step(T, l) ==
  IF l.done THEN l
  ELSE IF AtEnd(T, l)
  THEN Finish(l, Expression(Append(l.token_list, Literal(l.token))))
  ELSE LET c  == T[l.idx + 1]
           l1 == Advance(l)
           \* token_list.append(Literal(token)); return Expression(token_list)
           bye(k) == Finish(k, Expression(Append(k.token_list, Literal(k.token))))
       IN
       Settle(
       CASE l.state = "state_start" ->
              IF c = "$" THEN Go(l1, "state_dollar")
              ELSE IF c = "#" THEN bye(eat_comment(T, l1))
              ELSE IF c \notin whitespace THEN Go(pushback(l1), "state_literal")
              ELSE l1
         [] l.state = "state_dollar" ->
              IF c = "$" THEN Go(AddToken(l1, "$"), "state_literal")
              ELSE jump_to_variable_ref(
                     T, Restart(AddSymbol(l1, Literal(l1.token))), "state_literal")
         [] l.state = "state_literal" ->
              IF c = "$" THEN Go(l1, "state_dollar")
              ELSE IF c = "#" THEN bye(eat_comment(T, l1))
              ELSE IF c \in eol THEN Go(l1, "state_eol")
              ELSE AddToken(l1, c)
         [] l.state = "state_eol" ->
              IF c \notin eol THEN bye(pushback(l1))
              ELSE l1)

RECURSIVE assign_RHS_for(_, _, _)
\* for c in string: at most n iterations
assign_RHS_for(T, l, n) ==
  IF n <= 1 THEN assign_RHS_step(T, l)
  ELSE LET half == assign_RHS_for(T, l, n \div 2)
       IN  IF half.done THEN half ELSE assign_RHS_for(T, half, n - (n \div 2))

\* tokenize_assign_RHS with the whitespace that ends the value removed
tokenize_assign_RHS_stripped(T, x) ==
  LET x1 == depth_enter(x)
      r  == depth_exit(Outcome(assign_RHS_for(T, Locals(x1), Fuel(T))))
      tl == r.val.token_list
  IN  IF x1.exc # NoExc THEN Raise(x1.exc, x1)
      ELSE IF r.exc # NoExc THEN r
      ELSE [r EXCEPT !.val = Expression(
              [tl EXCEPT ![Len(tl)] = Literal(rstrip(@.string))])]

tokenize_assign_RHS(T, x) ==
  LET x1 == depth_enter(x)
  IN  IF x1.exc # NoExc THEN Raise(x1.exc, x1)
      ELSE depth_exit(Outcome(assign_RHS_for(T, Locals(x1), Fuel(T))))

-----------------------------------------------------------------------------
(* tokenize_rule_RHS *)

rule_RHS_step(T, l) ==
  IF l.done THEN l
  ELSE IF AtEnd(T, l)
  THEN Finish(l, PrerequisiteList(Append(l.token_list, Literal(l.token))))
  ELSE LET c  == T[l.idx + 1]
           l1 == Advance(l)
       IN
       Settle(
       CASE l.state = "state_start" ->
              IF c = "$" THEN Go(l1, "state_dollar")
              ELSE IF c = "#"
              THEN LET k == eat_comment(T, l1)
                   IN  Finish(k, PrerequisiteList(k.token_list))
              ELSE IF c = ";" THEN Finish(l1, PrerequisiteList(l1.token_list))
              ELSE IF c \notin whitespace THEN Go(pushback(l1), "state_word")
              ELSE l1
         [] l.state = "state_dollar" ->
              IF c = "$" THEN Go(AddToken(l1, "$"), "state_word")
              ELSE jump_to_variable_ref(
                     T, Restart(AddSymbol(l1, Literal(rstrip(l1.token)))),
                     "state_word")
         [] l.state = "state_word" ->
              IF c \in whitespace
              THEN Go(Restart(AddSymbol(l1, Literal(rstrip(l1.token)))),
                      "state_start")
              ELSE IF c = "\\" THEN Throw(l1, "NameError")
              ELSE IF c = ":" THEN Go(l1, "state_colon")
              ELSE IF c = "|" THEN Throw(l1, "AssertionError")
              ELSE IF c \in {"?", "+", "!"}
              THEN IF ~CanLookahead(T, l1) THEN Throw(l1, "StopIteration")
                   ELSE IF lookahead(T, l1) = "=" THEN Finish(l1, None)
                   ELSE AddToken(l1, c)
              ELSE IF c = "=" THEN Finish(l1, None)
              ELSE IF c = "#"
              THEN LET k == eat_comment(T, l1)
                   IN  Finish(k, Expression(Append(k.token_list, Literal(k.token))))
              ELSE IF c = "$" THEN Go(l1, "state_dollar")
              ELSE IF c = ";"
              THEN Finish(l1, PrerequisiteList(Append(l1.token_list,
                                                      Literal(l1.token))))
              ELSE AddToken(l1, c)
         [] l.state = "state_colon" ->
              IF c = ":" THEN Go(l1, "state_double_colon")
              ELSE IF c = "=" THEN Finish(l1, None)
              ELSE Throw(l1, "AssertionError")
         [] l.state = "state_double_colon" ->
              IF c = "=" THEN Finish(l1, None)
              ELSE Throw(l1, "AssertionError"))

RECURSIVE rule_RHS_for(_, _, _)
\* for c in string: at most n iterations
rule_RHS_for(T, l, n) ==
  IF n <= 1 THEN rule_RHS_step(T, l)
  ELSE LET half == rule_RHS_for(T, l, n \div 2)
       IN  IF half.done THEN half ELSE rule_RHS_for(T, half, n - (n \div 2))

\* tokenize_rule_RHS leaving every implicit pattern rule to the assignment
\* tokenizer
tokenize_rule_RHS_giving_up_at_colon(T, x) ==
  LET x1 == depth_enter(x)
      l  == rule_RHS_for(T, Locals(x1), Fuel(T))
  IN  IF x1.exc # NoExc THEN Raise(x1.exc, x1)
      ELSE IF l.exc = "AssertionError"
      THEN depth_exit(Return(None, [Ctx(l) EXCEPT !.exc = NoExc]))
      ELSE depth_exit(Outcome(l))

\* tokenize_rule_RHS without the empty Literal that ends its list
tokenize_rule_RHS_dropping_empty(T, x) ==
  LET x1 == depth_enter(x)
      r  == depth_exit(Outcome(rule_RHS_for(T, Locals(x1), Fuel(T))))
      tl == r.val.token_list
  IN  IF x1.exc # NoExc THEN Raise(x1.exc, x1)
      ELSE IF r.exc # NoExc \/ r.val.cls # "PrerequisiteList" THEN r
      ELSE IF tl # <<>> /\ tl[Len(tl)] = Literal(<<>>)
      THEN [r EXCEPT !.val = PrerequisiteList(SubSeq(tl, 1, Len(tl) - 1))]
      ELSE r

tokenize_rule_RHS(T, x) ==
  LET x1 == depth_enter(x)
  IN  IF x1.exc # NoExc THEN Raise(x1.exc, x1)
      ELSE depth_exit(Outcome(rule_RHS_for(T, Locals(x1), Fuel(T))))

-----------------------------------------------------------------------------
(* tokenize_statement_LHS *)

\* the value tokenize_statement_LHS returns: the pair (Expression, operator)
LHS(token_list, op) == Tuple(<<Expression(token_list), op>>)

statement_LHS_step(T, l, separators) ==
  IF l.done THEN l
  ELSE IF AtEnd(T, l)
  THEN IF l.state = "state_colon"
       THEN Finish(l, LHS(l.token_list, RuleOp(<<":">>)))
       ELSE IF l.state = "state_colon_colon"
       THEN Finish(l, LHS(l.token_list, RuleOp(<<":", ":">>)))
       ELSE Finish(l, None)
  ELSE LET c  == T[l.idx + 1]
           l1 == Advance(l)
       IN
       Settle(
       CASE l.state = "state_start" ->
              IF c \in whitespace THEN l1
              ELSE IF c = ":" THEN Go(l1, "state_colon")
              ELSE Go(pushback(l1), "state_in_word")
         [] l.state = "state_in_word" ->
              IF c = "\\" THEN Go(l1, "state_backslash")
              ELSE IF c \in separators
              THEN Go(Restart(AddSymbol(l1, Literal(l1.token))), "state_start")
              ELSE IF c = "$" THEN Go(l1, "state_dollar")
              ELSE IF c = "#" THEN eat_comment(T, l1)
              ELSE IF c = ":"
              THEN Go(AddSymbol(l1, Literal(rstrip(l1.token))), "state_colon")
              ELSE IF c \in {"?", "+", "!"}
              THEN IF ~CanLookahead(T, l1) THEN Throw(l1, "StopIteration")
                   ELSE IF lookahead(T, l1) = "="
                   THEN Finish(Advance(l1),
                               LHS(Append(l1.token_list, Literal(rstrip(l1.token))),
                                   AssignOp(<<c, "=">>)))
                   ELSE AddToken(l1, c)
              ELSE IF c = "="
              THEN Finish(l1, LHS(Append(l1.token_list, Literal(rstrip(l1.token))),
                                  AssignOp(<<"=">>)))
              ELSE AddToken(l1, c)
         [] l.state = "state_dollar" ->
              IF c = "$" THEN Go(AddToken(l1, "$"), "state_in_word")
              ELSE jump_to_variable_ref(
                     T, Restart(AddSymbol(l1, Literal(l1.token))), "state_in_word")
         [] l.state = "state_backslash" ->
              IF c \in backslashable THEN Go(AddToken(l1, c), "state_in_word")
              ELSE Go(AddToken(AddToken(l1, "\\"), c), "state_in_word")
         [] l.state = "state_colon" ->
              IF c = ":" THEN Go(l1, "state_colon_colon")
              ELSE IF c = "="
              THEN Finish(l1, LHS(l1.token_list, AssignOp(<<":", "=">>)))
              ELSE Finish(pushback(l1), LHS(l1.token_list, RuleOp(<<":">>)))
         [] l.state = "state_colon_colon" ->
              IF c = "="
              THEN Finish(l1, LHS(l1.token_list, AssignOp(<<":", ":", "=">>)))
              ELSE Finish(pushback(l1), LHS(l1.token_list, RuleOp(<<":", ":">>))))

RECURSIVE statement_LHS_for(_, _, _, _)
\* for c in string: at most n iterations
statement_LHS_for(T, l, separators, n) ==
  IF n <= 1 THEN statement_LHS_step(T, l, separators)
  ELSE LET half == statement_LHS_for(T, l, separators, n \div 2)
       IN  IF half.done THEN half
           ELSE statement_LHS_for(T, half, separators, n - (n \div 2))

\* a tokenize_statement_LHS that, in rule mode, leaves the operator unread
tokenize_statement_LHS_leaving_operator(T, x, separators) ==
  LET x1 == depth_enter(x)
      r  == depth_exit(Outcome(statement_LHS_for(T, Locals(x1), separators,
                                                 Fuel(T))))
  IN  IF x1.exc # NoExc THEN Raise(x1.exc, x1)
      ELSE IF separators # {} /\ r.exc = NoExc /\ r.val # None
      THEN [r EXCEPT !.idx = @ - Len(r.val.token_list[2].string)]
      ELSE r

tokenize_statement_LHS(T, x, separators) ==
  LET x1 == depth_enter(x)
  IN  IF x1.exc # NoExc THEN Raise(x1.exc, x1)
      ELSE depth_exit(Outcome(statement_LHS_for(T, Locals(x1), separators,
                                                Fuel(T))))

-----------------------------------------------------------------------------
(* tokenize_rule_prereq_or_assign *)

\* a statement built without its value
assignment_statement_without_value(T, lhs) ==
  LET a == tokenize_assign_RHS(T, Ctx(lhs))
  IN  IF a.exc # NoExc THEN a
      ELSE Return(AssignmentExpression(lhs.val.token_list), Ctx(a))

\* statement.append( tokenize_assign_RHS(string) );
\* AssignmentExpression( statement ), with the assertions of its __init__
assignment_statement(T, lhs) ==
  LET a == tokenize_assign_RHS(T, Ctx(lhs))
      statement == Append(lhs.val.token_list, a.val)
  IN  IF a.exc # NoExc THEN a
      ELSE IF ~(ExpressionAsserts(statement) /\ AssignmentExpressionAsserts(statement))
      THEN Raise("AssertionError", Ctx(a))
      ELSE Return(AssignmentExpression(statement), Ctx(a))

\* a retokenizing that hands the name back as a PrerequisiteList and leaves
\* the value unread
retokenize_as_prerequisites(T, x) ==
  LET lhs == tokenize_statement_LHS(T, pop_state(x), {})
  IN  IF lhs.exc # NoExc THEN lhs
      ELSE IF lhs.val = None THEN Raise("TypeError", Ctx(lhs))
      ELSE Return(PrerequisiteList(lhs.val.token_list[1].token_list), Ctx(lhs))

\* the branch "rhs is None": retokenize as an assignment statement
retokenize_as_assign(T, x) ==
  LET lhs == tokenize_statement_LHS(T, pop_state(x), {})
  IN  IF lhs.exc # NoExc THEN lhs
      ELSE IF lhs.val = None THEN Raise("TypeError", Ctx(lhs))
      ELSE IF lhs.val.token_list[2].string \notin assignment_operators
      THEN Raise("AssertionError", Ctx(lhs))
      ELSE assignment_statement(T, lhs)

rule_prereq_or_assign_body(T, x) ==
  LET rhs == tokenize_rule_RHS(T, push_state(x))
  IN  IF rhs.exc # NoExc THEN rhs
      ELSE IF rhs.val = None THEN retokenize_as_assign(T, Ctx(rhs))
      ELSE IF rhs.val.cls # "PrerequisiteList"
      THEN Raise("AssertionError", Ctx(rhs))
      ELSE IF ~ExpressionAsserts(rhs.val.token_list)
      THEN Raise("AssertionError", Ctx(rhs))
      ELSE rhs

\* tokenize_rule_prereq_or_assign without its depth_checker
tokenize_rule_prereq_or_assign_unguarded(T, x) ==
  rule_prereq_or_assign_body(T, x)

tokenize_rule_prereq_or_assign(T, x) ==
  LET x1 == depth_enter(x)
  IN  IF x1.exc # NoExc THEN Raise(x1.exc, x1)
      ELSE depth_exit(rule_prereq_or_assign_body(T, x1))

-----------------------------------------------------------------------------
(* tokenize_assignment_or_rule *)

\* a re-run as rule that wraps the statement in an AssignmentExpression
rerun_as_rule_wrapped_as_assignment(T, x) ==
  LET lhs == tokenize_statement_LHS(T, pop_state(x), whitespace)
  IN  IF lhs.exc # NoExc THEN lhs
      ELSE IF lhs.val = None THEN Raise("TypeError", Ctx(lhs))
      ELSE LET r == tokenize_rule_prereq_or_assign(T, Ctx(lhs))
               statement == Append(lhs.val.token_list, r.val)
           IN  IF r.exc # NoExc THEN r
               ELSE Return(AssignmentExpression(statement), Ctx(r))

\* a re-run as rule that keeps the whitespace rules of an assignment
rerun_as_rule_keeping_whitespace(T, x) ==
  LET lhs == tokenize_statement_LHS(T, pop_state(x), {})
  IN  IF lhs.exc # NoExc THEN lhs
      ELSE IF lhs.val = None THEN Raise("TypeError", Ctx(lhs))
      ELSE LET r == tokenize_rule_prereq_or_assign(T, Ctx(lhs))
               statement == Append(lhs.val.token_list, r.val)
           IN  IF r.exc # NoExc THEN r
               ELSE Return(RuleExpression(statement), Ctx(r))

\* "re-run as rule": the branch taken when the operator is a rule operator
rerun_as_rule(T, x) ==
  LET lhs == tokenize_statement_LHS(T, pop_state(x), whitespace)
  IN  IF lhs.exc # NoExc THEN lhs
      ELSE IF lhs.val = None THEN Raise("TypeError", Ctx(lhs))
      ELSE LET r == tokenize_rule_prereq_or_assign(T, Ctx(lhs))
               statement == Append(lhs.val.token_list, r.val)
           IN  IF r.exc # NoExc THEN r
               ELSE IF ~ExpressionAsserts(statement)
               THEN Raise("AssertionError", Ctx(r))
               ELSE Return(RuleExpression(statement), Ctx(r))

\* a tokenizer that takes a text without operator for the value of an
\* assignment to the empty name
assignment_or_rule_body_guessing(T, x) ==
  LET lhs == tokenize_statement_LHS(T, push_state(x), {})
  IN  IF lhs.exc # NoExc THEN lhs
      ELSE IF lhs.val.cls # "tuple"
      THEN Return(AssignmentExpression(<<Expression(<<Literal(<<>>)>>),
                                         AssignOp(<<"=">>),
                                         Expression(<<Literal(T)>>)>>), Ctx(lhs))
      ELSE IF ~ExpressionAsserts(lhs.val.token_list)
      THEN Raise("AssertionError", Ctx(lhs))
      ELSE IF lhs.val.token_list[2].string \in rule_operators
      THEN rerun_as_rule(T, Ctx(lhs))
      ELSE assignment_statement(T, lhs)

assignment_or_rule_body(T, x) ==
  LET lhs == tokenize_statement_LHS(T, push_state(x), {})
  IN  IF lhs.exc # NoExc THEN lhs
      ELSE IF lhs.val.cls # "tuple" THEN Raise("AssertionError", Ctx(lhs))
      ELSE IF ~ExpressionAsserts(lhs.val.token_list)
      THEN Raise("AssertionError", Ctx(lhs))
      ELSE IF lhs.val.token_list[2].string \in rule_operators
      THEN rerun_as_rule(T, Ctx(lhs))
      ELSE assignment_statement(T, lhs)

tokenize_assignment_or_rule(T, x) ==
  LET x1 == depth_enter(x)
  IN  IF x1.exc # NoExc THEN Raise(x1.exc, x1)
      ELSE depth_exit(assignment_or_rule_body(T, x1))


-----------------------------------------------------------------------------
(* tokenize_recipe *)

Recipe(tl) == Symbol("Recipe", <<>>, tl)

RecipeList(tl) == Symbol("RecipeList", <<>>, tl)

recipe_prefix == "\t"

state_start == -1

state_recipe == 1

state_lhs_white == 2

\* the locals of tokenize_recipe at loop entry
RecipeLocals(x) ==
  [idx |-> x.idx, state_stack |-> x.state_stack, depth |-> x.depth, exc |-> x.exc,
   state |-> state_start, token |-> <<>>, token_list |-> <<>>,
   recipe_list |-> <<>>, done |-> x.exc # NoExc, val |-> None]

\* after the loop: token_list.append( Literal(token) );
\* recipe_list.append( Recipe(token_list) ); return RecipeList( recipe_list )
recipe_end_of_string(l) ==
  LET tl == Append(l.token_list, Literal(l.token))
      rl == Append(l.recipe_list, Recipe(tl))
  IN  Finish([l EXCEPT !.token_list = tl, !.recipe_list = rl], RecipeList(rl))

\* The body of "for c in string" for the character c just read, l the
\* locals and the scanner after the read.  The second test of the chain is
\* "elif state_lhs_white :", the truth value of the constant 2 and not a
\* comparison with state, so it takes every iteration that is not in
\* state_start; the branches written after it (state_recipe,
\* state_seeking_next_recipe, state_space, state_dollar, state_backslash)
\* are never run and the ELSE below stands for the whole of them.
recipe_body(l, c) ==
  IF l.state = state_start
  THEN IF c = recipe_prefix THEN Go(l, state_lhs_white)
       ELSE Throw(l, "ParseError")
  ELSE IF state_lhs_white # 0
  THEN IF c \in eol THEN Go(l, state_start)
       ELSE IF c \notin whitespace
            THEN Settle(Go(pushback(l), state_recipe))
            ELSE l
  ELSE Throw(l, "AssertionError")

\* one iteration of "for c in string": the read of c and the body, or the
\* end of the loop
recipe_step(T, l) ==
  IF l.done THEN l
  ELSE IF AtEnd(T, l) THEN recipe_end_of_string(l)
  ELSE recipe_body(Advance(l), T[l.idx + 1])

RECURSIVE recipe_for(_, _, _)
\* for c in string: at most n iterations
recipe_for(T, l, n) ==
  IF n <= 1 THEN recipe_step(T, l)
  ELSE LET half == recipe_for(T, l, n \div 2)
       IN  IF half.done THEN half ELSE recipe_for(T, half, n - (n \div 2))

tokenize_recipe(T, x) ==
  LET x1 == depth_enter(x)
  IN  IF x1.exc # NoExc THEN Raise(x1.exc, x1)
      ELSE depth_exit(Outcome(recipe_for(T, RecipeLocals(x1), Fuel(T))))
-----------------------------------------------------------------------------
(* Texts the drivers tokenize *)

MaxNest == 11

MaxLen == 3

MaxLeak == 2

\* every text of at most n characters of the alphabet A
Strings(A, n) == UNION {[1..k -> A] : k \in 0..n}

RECURSIVE Chain(_, _)
\* n nested references around the text w: $(w$(w ... ))
Chain(n, w) ==
  IF n = 0 THEN w ELSE <<"$", "(">> \o w \o Chain(n - 1, w) \o <<")">>

\* the references of recurse_test's kind: nested up to and past the limit
Chains == {Chain(n, w) : n \in 1..MaxNest, w \in {<<>>, <<"a">>}}

\* references with several nested references side by side, as in
\* "$(filter-out $(mains),$(objects))" of variable_ref_test
Siblings ==
  {<<"$", "(">> \o a \o Chain(n, <<"b">>) \o c \o Chain(m, <<>>) \o e \o <<")">> \o t :
     a \in {<<>>, <<"a">>}, n \in 0..2, c \in {<<>>, <<" ">>}, m \in 0..1,
     e \in {<<>>, <<"e">>}, t \in {<<>>, <<"c">>}}

\* every short text after an opening "$(": unterminated references, "$$",
\* single-character references and braces among them
ShortRefs ==
  {<<"$", "(">> \o s : s \in Strings({"a", "$", "(", ")", "{", "}"}, MaxLen)}

VarRefInputs == Chains \cup Siblings \cup ShortRefs

-----------------------------------------------------------------------------
(* The drivers: each test builds a scanner on a text and calls a tokenizer *)

\* what the driver holds after a call: the tokenizer called, the separators
\* passed to it, the value returned or the exception raised, and the depth at
\* the call
NoRet ==
  [func |-> "none", separators |-> {}, val |-> None, exc |-> NoExc, depth0 |-> 0]

\* no tokenize_recipe loop is running
NoLocals == [state |-> 0, token |-> <<>>, token_list |-> <<>>,
             recipe_list |-> <<>>, c |-> ""]

\* the program has started no thread
NoThreads == <<>>

Init ==
  /\ locals = NoLocals
  /\ threads = NoThreads
  /\ string = <<>>
  /\ idx = 0
  /\ state_stack = <<>>
  /\ depth = 0
  /\ ret = NoRet
  /\ pc = "idle"

\* ScannerIterator.__init__ on one of the texts of In
ScannerIterator(In) ==
  /\ pc = "idle"
  /\ depth <= MaxLeak
  /\ \E s \in In : string' = s
  /\ idx' = 0
  /\ state_stack' = <<>>
  /\ pc' = "ready"
  /\ UNCHANGED <<depth, ret, locals, threads>>

\* the effect of a tokenizer call with result r
Called(func, separators, r) ==
  /\ idx' = r.idx
  /\ state_stack' = r.state_stack
  /\ depth' = r.depth
  /\ ret' = [func |-> func, separators |-> separators, val |-> r.val,
             exc |-> r.exc, depth0 |-> depth]
  /\ pc' = "done"
  /\ UNCHANGED <<string, locals, threads>>

\* my_iter = ScannerIterator(s) of variable_ref_test
variable_ref_test == ScannerIterator(VarRefInputs)

CallVariableRef ==
  /\ pc = "ready"
  /\ Called("tokenize_variable_ref", {},
            tokenize_variable_ref(string, Context(idx, state_stack, depth)))

\* the driver drops the scanner and the result; the global depth stays
Discard ==
  /\ pc = "done"
  /\ string' = <<>>
  /\ idx' = 0
  /\ state_stack' = <<>>
  /\ ret' = NoRet
  /\ pc' = "idle"
  /\ UNCHANGED <<depth, locals, threads>>

\* depth_reset(), called between tests
DepthReset ==
  /\ pc = "idle"
  /\ depth' = depth_reset
  /\ UNCHANGED <<string, idx, state_stack, ret, pc, locals, threads>>

NextVarRef == variable_ref_test \/ CallVariableRef \/ Discard \/ DepthReset

SpecVarRef == Init /\ [][NextVarRef]_vars

-----------------------------------------------------------------------------
(* Statements *)

Targets == {<<"a">>, <<"a", " ", "b">>, <<"a", "\t", "b">>}

Prerequisites ==
  {<<>>, <<" ">>, <<"c">>, <<" ", "c">>, <<"c", " ">>, <<" ", "c", " ", "d">>,
   <<"c", "\t", "d", " ">>}

\* "all : this is a test", "all : " and their like
PlainRules ==
  {lead \o t \o g \o o \o p :
     lead \in {<<>>, <<" ">>}, t \in Targets, g \in {<<>>, <<" ">>},
     o \in rule_operators, p \in Prerequisites}

Values ==
  {<<>>, <<"c">>, <<" ", "c">>, <<"|", "c">>, <<":", "c">>, <<"=", "c">>,
   <<"c", " ", "d">>}

\* "all : CC=gcc", "all : CC=|gcc", "all : CC::=gcc" and their like
TargetAssignments ==
  {<<"a">> \o r \o n \o o \o v :
     r \in {<<":">>, <<" ", ":", " ">>, <<":", ":">>},
     n \in {<<"b">>, <<"b", " ">>}, o \in assignment_operators, v \in Values}

\* "all=foo", "this is a test = " and their like
Assignments ==
  {n \o o \o v :
     n \in {<<"a">>, <<"a", " ">>, <<"a", " ", "b">>},
     o \in assignment_operators, v \in Values}

\* statements with "$$" and with references, among them
\* "all : this is a test" and "all : ; @echo $@" of rule_test
References ==
  {<<"a", "$", "$", "=", "b">>,
   <<"a", "=", "$", "$", "b">>,
   <<"a", ":", "$", "$">>,
   <<"a", ":", "$", "@">>,
   <<"$", "@", ":", "b">>,
   <<"$", "(", "a", ")", ":", "b">>,
   <<"a", ":", "$", "(", "b", ")">>,
   <<"a", "=", "$", "(", "b", ")">>,
   <<"a", "=", "$", "{", "b", "}">>,
   <<"$", "(", "a", ")", "=", "b">>,
   <<"a", "=", "b", "#", "c">>,
   <<"a", "l", "l", " ", ":", " ", "t", "h", "i", "s", " ", "i", "s", " ",
     "a", " ", "t", "e", "s", "t">>,
   <<"a", "l", "l", " ", ":", " ", ";", " ", "@", "e", "c", "h", "o", " ",
     "$", "@">>}

\* every short text: statements without an operator, with a bare "$", with
\* nothing before the operator among them
ShortStatements == Strings({"a", " ", ":", "=", "$", "?", "#"}, MaxLen)

StatementInputs ==
  PlainRules \cup TargetAssignments \cup Assignments \cup References
  \cup ShortStatements

\* my_iter = ScannerIterator(s) of statement_test and rule_test
statement_test == ScannerIterator(StatementInputs)

CallAssignmentOrRule ==
  /\ pc = "ready"
  /\ Called("tokenize_assignment_or_rule", {},
            tokenize_assignment_or_rule(string,
                                        Context(idx, state_stack, depth)))

\* tokenize_statement_LHS(my_iter) and tokenize_statement_LHS(my_iter,whitespace)
CallStatementLHS ==
  /\ pc = "ready"
  /\ \E separators \in {{}, whitespace} :
       Called("tokenize_statement_LHS", separators,
              tokenize_statement_LHS(string, Context(idx, state_stack, depth),
                                     separators))

NextStatement ==
  statement_test \/ CallAssignmentOrRule \/ CallStatementLHS \/ Discard
  \/ DepthReset

SpecStatement == Init /\ [][NextStatement]_vars

-----------------------------------------------------------------------------
(* Two threads, each parsing its own statement on its own ScannerIterator.  *)
(* Of a parse only its calls through check_depth touch what the threads     *)
(* share, the global depth: a thread is the chain of check_depth calls of   *)
(* tokenize_variable_ref on a reference nested "nest" deep.  "depth += 1"   *)
(* and "depth -= 1" are a load and a store, and the other thread may run    *)
(* between the two.                                                         *)

MaxThreadNest == 6

ThreadIds == {1, 2}

\* a thread about to make the outermost call of its parse
Thread(nest) ==
  [nest |-> nest, level |-> 0, pc |-> "load_inc", tmp |-> 0, exc |-> NoExc]

\* threading.Thread(target=tokenize_variable_ref, ...).start(), twice, in a
\* program whose depth is 0
StartThreads ==
  /\ pc = "idle"
  /\ depth = depth_reset
  /\ \E n1, n2 \in 1..MaxThreadNest :
       threads' = [t \in ThreadIds |-> Thread(IF t = 1 THEN n1 ELSE n2)]
  /\ pc' = "threads"
  /\ UNCHANGED <<string, idx, state_stack, depth, ret, locals>>

\* thread t takes the step "to" of its program, leaving the depth at d
ThreadStep(t, from, to, d) ==
  /\ pc = "threads"
  /\ threads[t].pc = from
  /\ threads' = [threads EXCEPT ![t] = to]
  /\ depth' = d
  /\ UNCHANGED <<string, idx, state_stack, ret, pc, locals>>

\* depth += 1: load the global
LoadInc(t) ==
  ThreadStep(t, "load_inc",
             [threads[t] EXCEPT !.tmp = depth, !.pc = "store_inc"], depth)

\* depth += 1: store the sum
StoreInc(t) ==
  ThreadStep(t, "store_inc", [threads[t] EXCEPT !.pc = "check"],
             threads[t].tmp + 1)

\* if depth > 10 : raise NestedTooDeep(depth); ret = func(*args)
CheckDepth(t) ==
  ThreadStep(t, "check",
             IF depth > DepthLimit
             THEN [threads[t] EXCEPT !.exc = "NestedTooDeep", !.pc = "failed"]
             ELSE [threads[t] EXCEPT
                     !.level = @ + 1,
                     !.pc = IF threads[t].level + 1 < threads[t].nest
                            THEN "load_inc" ELSE "load_dec"],
             depth)

\* depth -= 1: load the global
LoadDec(t) ==
  ThreadStep(t, "load_dec",
             [threads[t] EXCEPT !.tmp = depth, !.pc = "store_dec"], depth)

\* depth -= 1: store the difference
StoreDec(t) ==
  ThreadStep(t, "store_dec", [threads[t] EXCEPT !.pc = "assert"],
             threads[t].tmp - 1)

\* assert depth >= 0, depth; return ret
AssertDepth(t) ==
  ThreadStep(t, "assert",
             IF depth < 0
             THEN [threads[t] EXCEPT !.exc = "AssertionError", !.pc = "failed"]
             ELSE [threads[t] EXCEPT
                     !.level = @ - 1,
                     !.pc = IF threads[t].level - 1 = 0
                            THEN "done" ELSE "load_dec"],
             depth)

\* Thread.join() of both threads, then depth_reset()
JoinThreads ==
  /\ pc = "threads"
  /\ \A t \in ThreadIds : threads[t].pc \in {"done", "failed"}
  /\ threads' = NoThreads
  /\ depth' = depth_reset
  /\ pc' = "idle"
  /\ UNCHANGED <<string, idx, state_stack, ret, locals>>

NextThreads ==
  \/ StartThreads
  \/ \E t \in ThreadIds :
       \/ LoadInc(t) \/ StoreInc(t) \/ CheckDepth(t)
       \/ LoadDec(t) \/ StoreDec(t) \/ AssertDepth(t)
  \/ JoinThreads

SpecThreads == Init /\ [][NextThreads]_vars

-----------------------------------------------------------------------------
(* The ScannerIterator on its own: a caller that makes any sequence of      *)
(* next, lookahead, pushback, push_state and pop_state calls.               *)

MaxStack == 3

ScannerInputs == Strings({"a", "b"}, MaxLen)

\* my_iter = ScannerIterator(s)
scanner_test == ScannerIterator(ScannerInputs)

\* a character as a call returns it
Str(c) == Symbol("str", <<c>>, <<>>)

\* the effect of a call of a ScannerIterator method that left the scanner
\* as in x and returned val (None when it raised)
ScannerCalled(func, x, val) ==
  /\ pc \in {"ready", "done"}
  /\ idx' = x.idx
  /\ state_stack' = x.state_stack
  /\ ret' = [func |-> func, separators |-> {},
             val |-> IF x.exc = NoExc THEN val ELSE None,
             exc |-> x.exc, depth0 |-> depth]
  /\ pc' = "done"
  /\ UNCHANGED <<string, depth, locals, threads>>

\* the scanner as the caller holds it
Scanner == Context(idx, state_stack, depth)

CallNext ==
  ScannerCalled("next", next(string, Scanner),
                IF AtEnd(string, Scanner) THEN None ELSE Str(string[idx + 1]))

CallLookahead ==
  ScannerCalled("lookahead",
                IF CanLookahead(string, Scanner) THEN Scanner
                ELSE [Scanner EXCEPT !.exc = "StopIteration"],
                IF CanLookahead(string, Scanner)
                THEN Str(lookahead(string, Scanner)) ELSE None)

CallPushback == ScannerCalled("pushback", pushback(Scanner), None)

CallPushState ==
  /\ Len(state_stack) < MaxStack
  /\ ScannerCalled("push_state", push_state(Scanner), None)

CallPopState == ScannerCalled("pop_state", pop_state(Scanner), None)

NextScanner ==
  \/ scanner_test
  \/ CallNext
  \/ CallLookahead
  \/ CallPushback
  \/ CallPushState
  \/ CallPopState
  \/ Discard

SpecScanner == Init /\ [][NextScanner]_vars

-----------------------------------------------------------------------------
(* Every tokenizer, called on a fresh ScannerIterator.  tokenize_recipe     *)
(* runs its loop step by step, the read of a character and the body for     *)
(* it, with its locals in the variable locals; the other tokenizers run to  *)
(* their return in one step.  The caller may also move the scanner back.    *)

\* texts of the tests of sm.py and rule_test.py, and texts like them
TestTexts ==
  {<<"g", "c", "c", " ", " ", "#", " ", "c">>,
   <<" ", "\t", "g", "c", "c", " ", "-", "c", " ", "#", "c", "\n", "x">>,
   <<" ", " ", "t", "h", "i", "s", " ", " ", " ", "i", "s", " ", " ", " ",
     "a", " ", " ", " ", "t", "e", "s", "t", " ", " ", " ", "=", " ">>,
   <<"\t", "C", "C", " ", "=", "g", "c", "c">>,
   <<"f", "o", "o", " ", "b", "a", "r">>,
   <<" ", " ", "#", " ", "f", "o", "o">>,
   <<"#", " ", "f", "o", "o", "\n", "a", "=", "b">>,
   <<"#", "a", "\n", "\n", "b">>,
   <<"\t", "g", "c", "c">>,
   <<"\t", " ", "\t", "\n", "\t", "\n">>,
   <<"a", "=", "$", "(", "b">>,
   <<"$", "(", "a", "$", "(", "b", ")">>,
   <<"$", "{", "a", "$">>}

ShortTexts ==
  Strings({"a", " ", "\t", "#", "\n", "$", "(", ")", ":", "="}, MaxLen)

TokenizerInputs == TestTexts \cup ShortTexts

\* my_iter = ScannerIterator(s)
tokenizer_test == ScannerIterator(TokenizerInputs)

CallAssignRHS ==
  /\ pc = "ready"
  /\ Called("tokenize_assign_RHS", {},
            tokenize_assign_RHS(string, Context(idx, state_stack, depth)))

CallRuleRHS ==
  /\ pc = "ready"
  /\ Called("tokenize_rule_RHS", {},
            tokenize_rule_RHS(string, Context(idx, state_stack, depth)))

CallComment ==
  /\ pc = "ready"
  /\ Called("comment", {}, comment(string, Context(idx, state_stack, depth)))

\* the loop record of the running tokenize_recipe
RecipeLoop ==
  [RecipeLocals(Context(idx, state_stack, depth)) EXCEPT
     !.state = locals.state, !.token = locals.token,
     !.token_list = locals.token_list, !.recipe_list = locals.recipe_list]

\* the locals of tokenize_recipe as record l holds them; c is the character
\* the loop has read for the iteration it is in, "" between two iterations
RecipeVars(l, c) ==
  [state |-> l.state, token |-> l.token, token_list |-> l.token_list,
   recipe_list |-> l.recipe_list, c |-> c]

\* check_depth before the call, and the statements before the loop
CallRecipe ==
  /\ pc = "ready"
  /\ LET x1 == depth_enter(Context(idx, state_stack, depth))
     IN  IF x1.exc # NoExc
         THEN Called("tokenize_recipe", {}, Raise(x1.exc, x1))
         ELSE /\ depth' = x1.depth
              /\ locals' = RecipeVars(RecipeLocals(x1), "")
              /\ ret' = [NoRet EXCEPT !.func = "tokenize_recipe",
                                      !.depth0 = depth]
              /\ pc' = "running"
              /\ UNCHANGED <<string, idx, state_stack, threads>>

\* tokenize_recipe ends with the loop record l: check_depth after the call
RecipeReturns(l) ==
  LET r == depth_exit(Outcome(l))
  IN  /\ idx' = r.idx
      /\ state_stack' = r.state_stack
      /\ depth' = r.depth
      /\ ret' = [ret EXCEPT !.val = r.val, !.exc = r.exc]
      /\ locals' = NoLocals
      /\ pc' = "done"
      /\ UNCHANGED <<string, threads>>

\* "for c in string" reads the next character, or, at the end of the input,
\* the statements after the loop
RecipeNext ==
  /\ pc = "running"
  /\ locals.c = ""
  /\ IF AtEnd(string, RecipeLoop)
     THEN RecipeReturns(recipe_end_of_string(RecipeLoop))
     ELSE /\ idx' = idx + 1
          /\ locals' = [locals EXCEPT !.c = string[idx + 1]]
          /\ UNCHANGED <<string, state_stack, depth, ret, pc, threads>>

\* the body of the loop for the character read
RecipeBody ==
  /\ pc = "running"
  /\ locals.c # ""
  /\ LET l == recipe_body(RecipeLoop, locals.c)
     IN  IF l.done THEN RecipeReturns(l)
         ELSE /\ idx' = l.idx
              /\ state_stack' = l.state_stack
              /\ depth' = l.depth
              /\ locals' = RecipeVars(l, "")
              /\ UNCHANGED <<string, ret, pc, threads>>

NextTokenizers ==
  \/ tokenizer_test
  \/ CallAssignmentOrRule
  \/ CallStatementLHS
  \/ CallRuleRHS
  \/ CallAssignRHS
  \/ CallVariableRef
  \/ CallComment
  \/ CallRecipe
  \/ RecipeNext
  \/ RecipeBody
  \/ CallPushback
  \/ Discard
  \/ DepthReset

SpecTokenizers == Init /\ [][NextTokenizers]_vars

\* the scheduler runs the thread that is in the loop of tokenize_recipe
SpecTokenizersFair ==
  SpecTokenizers /\ WF_vars(RecipeNext) /\ WF_vars(RecipeBody)

-----------------------------------------------------------------------------
(* Symbol.__eq__ and Expression.__eq__, and the trees internal_tests        *)
(* compares.                                                                *)

MaxChildren == 2

\* a Python bool as a value of the model
Bool(b) == Symbol("bool", IF b THEN <<"T", "r", "u", "e">>
                          ELSE <<"F", "a", "l", "s", "e">>, <<>>)

\* an __eq__ of Expression that compares the children without their classes
eq_any_class(lhs, rhs, eq_children) ==
  IF lhs.cls \in ExpressionClasses
  THEN IF rhs.cls \notin ExpressionClasses THEN "AssertionError"
       ELSE IF Len(lhs.token_list) # Len(rhs.token_list) THEN "False"
       ELSE IF \A i \in 1..Len(lhs.token_list) : eq_children[i] = "True"
       THEN "True" ELSE "False"
  ELSE IF rhs.cls \in ExpressionClasses THEN "AttributeError"
  ELSE IF lhs.string = rhs.string THEN "True" ELSE "False"

\* lhs.__eq__(rhs), eq_children[i] the outcome of the == of the i-th
\* children: Expression.__eq__ when lhs is an Expression (rhs must be one),
\* Symbol.__eq__ otherwise (an Expression has no attribute string)
eq_dispatch(lhs, rhs, eq_children) ==
  IF lhs.cls \in ExpressionClasses
  THEN IF rhs.cls \notin ExpressionClasses THEN "AssertionError"
       ELSE IF Len(lhs.token_list) # Len(rhs.token_list) THEN "False"
       ELSE IF \A i \in 1..Len(lhs.token_list) :
                 /\ lhs.token_list[i].cls = rhs.token_list[i].cls
                 /\ eq_children[i] = "True"
       THEN "True" ELSE "False"
  ELSE IF rhs.cls \in ExpressionClasses THEN "AttributeError"
  ELSE IF lhs.string = rhs.string THEN "True" ELSE "False"

RECURSIVE __eq__(_, _)
\* lhs == rhs
__eq__(lhs, rhs) ==
  eq_dispatch(lhs, rhs,
    [i \in 1..(IF Len(lhs.token_list) = Len(rhs.token_list)
               THEN Len(lhs.token_list) ELSE 0) |->
       __eq__(lhs.token_list[i], rhs.token_list[i])])

\* the Literals and operators of the tests
Leaves ==
  {Literal(<<"a">>), Literal(<<":">>), RuleOp(<<":">>), RuleOp(<<":", ":">>),
   AssignOp(<<"=">>)}

\* the Expressions over the Leaves
Flat ==
  {Symbol(cls, <<>>, tl) :
     cls \in {"Expression", "PrerequisiteList"},
     tl \in UNION {[1..n -> Leaves] : n \in 0..MaxChildren}}

\* rules as internal_tests builds them, and Expressions of an Expression
Nested ==
  {RuleExpression(<<Expression(<<Literal(<<"a">>)>>), op, f>>) :
     op \in {RuleOp(<<":">>), RuleOp(<<":", ":">>)}, f \in Flat}
  \cup {Expression(<<f>>) : f \in Flat}

Trees == Leaves \cup Flat \cup Nested

\* exp1 = ...; exp2 = ...; exp1==exp2 of internal_tests
internal_tests ==
  /\ pc = "idle"
  /\ \E lhs, rhs \in Trees :
       LET r == __eq__(lhs, rhs)
       IN  ret' = [func |-> "__eq__", separators |-> {},
                   val |-> IF r \in {"True", "False"}
                           THEN Tuple(<<lhs, rhs, Bool(r = "True")>>)
                           ELSE Tuple(<<lhs, rhs>>),
                   exc |-> IF r \in {"True", "False"} THEN NoExc ELSE r,
                   depth0 |-> depth]
  /\ pc' = "done"
  /\ UNCHANGED <<string, idx, state_stack, depth, locals, threads>>

NextEquality == internal_tests \/ Discard

SpecEquality == Init /\ [][NextEquality]_vars

-----------------------------------------------------------------------------
(* The statement tokenizers on texts with backslashes. *)

\* statements of statement_test with escapes, and statements like them
EscapeTests ==
  {<<"\\", "f", "o", "o", " ", ":", " ", ";", " ">>,
   <<"f", "o", "o", "\\", " ", " ", ":", " ", ";", " ">>,
   <<"I", "\\", " ", "h", "a", "v", "e", "\\", " ", "s", "p", "a", "c", "e", "s",
     " ", ":", " ", ";", " ">>,
   <<"a", "\\", " ", "b", "\\", ":", "c", "=", "d">>,
   <<"a", "\\", "%", "b", "\\", ",", "c", ":", "d">>}

ShortEscapes == Strings({"a", "\\", " ", ":", "=", "%"}, MaxLen + 1)

EscapeInputs == EscapeTests \cup ShortEscapes

\* my_iter = ScannerIterator(s) of statement_test
escape_test == ScannerIterator(EscapeInputs)

NextEscapes ==
  escape_test \/ CallAssignmentOrRule \/ CallStatementLHS \/ Discard
  \/ DepthReset

SpecEscapes == Init /\ [][NextEscapes]_vars

-----------------------------------------------------------------------------
(* Every tokenizer on texts with "$$". *)

\* texts with "$$" in a name, in targets and prerequisites, in a value, in a
\* reference and in a recipe
DollarTests ==
  {<<"$", "(", "$", "$", ")">>,
   <<"$", "(", "a", "$", "$", "b", ")">>,
   <<"a", "$", "$", "b", "=", "c", "$", "$", "d">>,
   <<"a", "$", "$", ":", "b", "$", "$">>,
   <<"a", ":", "b", "=", "$", "$", "c">>,
   <<"\t", "g", "c", "c", " ", "$", "$", "x">>}

ShortDollars == Strings({"a", "$", "(", ")", "\t", "="}, MaxLen + 1)

DollarInputs == DollarTests \cup ShortDollars

\* my_iter = ScannerIterator(s)
dollar_test == ScannerIterator(DollarInputs)

NextDollars ==
  \/ dollar_test
  \/ CallAssignmentOrRule
  \/ CallStatementLHS
  \/ CallRuleRHS
  \/ CallAssignRHS
  \/ CallVariableRef
  \/ CallRecipe
  \/ RecipeNext
  \/ RecipeBody
  \/ Discard
  \/ DepthReset

SpecDollars == Init /\ [][NextDollars]_vars

\* the scheduler runs the thread that is in the loop of tokenize_recipe
SpecDollarsFair ==
  SpecDollars /\ WF_vars(RecipeNext) /\ WF_vars(RecipeBody)

-----------------------------------------------------------------------------
(* Statements with nested references. *)

\* statements with the references of recurse_test's kind as targets, as
\* prerequisites, as the value of an assignment and as the value of a
\* target-specific assignment
NestedStatements ==
  UNION {{c \o <<":", "b">>,
          <<"a", ":">> \o c,
          <<"a", "=">> \o c,
          <<"a", ":", "b", "=">> \o c} : c \in Chains}

NestedInputs == Chains \cup NestedStatements

\* my_iter = ScannerIterator(s)
nested_test == ScannerIterator(NestedInputs)

NextNested ==
  nested_test \/ CallVariableRef \/ CallAssignmentOrRule \/ Discard
  \/ DepthReset

SpecNested == Init /\ [][NextNested]_vars

-----------------------------------------------------------------------------
(* tokenize_assignment_or_rule, one loop iteration at a time.  A pass is   *)
(* one call of tokenize_statement_LHS, tokenize_rule_RHS or                 *)
(* tokenize_assign_RHS; locals holds the pass, its loop record l, the       *)
(* left-hand sides tokenized so far and where each pass started.  The       *)
(* statements between two passes run with the last iteration of the pass.   *)

\* one iteration of the loop of the pass
PassStep(T, pass, l) ==
  CASE pass = "lhs" -> statement_LHS_step(T, l, {})
    [] pass = "lhs_rule" -> statement_LHS_step(T, l, whitespace)
    [] pass = "rule_RHS" -> rule_RHS_step(T, l)
    [] pass = "lhs_assign" -> statement_LHS_step(T, l, {})
    [] pass \in {"assign_RHS", "target_assign_RHS"} -> assign_RHS_step(T, l)

\* the next tokenizer is called in context x: check_depth before the call,
\* and the statements before its loop
BeginPass(pass, x, lhs, inner) ==
  [pass |-> pass, l |-> Locals(depth_enter(x)), r |-> Raise("Running", x),
   lhs |-> lhs, inner |-> inner]

\* tokenize_assignment_or_rule ends with r: check_depth after the call
EndParse(r) ==
  [pass |-> "return", l |-> Locals(Ctx(r)), r |-> depth_exit(r),
   lhs |-> <<>>, inner |-> <<>>]

\* statement.append( tokenize_rule_prereq_or_assign(string) );
\* return RuleExpression( statement )
ReturnRule(lhs, r) ==
  IF r.exc # NoExc THEN EndParse(r)
  ELSE IF ~ExpressionAsserts(Append(lhs, r.val))
  THEN EndParse(Raise("AssertionError", Ctx(r)))
  ELSE EndParse(Return(RuleExpression(Append(lhs, r.val)), Ctx(r)))

\* AssignmentExpression( statement ) after tokenize_assign_RHS returned a
\* (in either caller: r.val is None when an assertion failed)
BuildAssignment(lhs, a) ==
  IF a.exc # NoExc THEN a
  ELSE IF ~(ExpressionAsserts(Append(lhs, a.val))
            /\ AssignmentExpressionAsserts(Append(lhs, a.val)))
  THEN Raise("AssertionError", Ctx(a))
  ELSE Return(AssignmentExpression(Append(lhs, a.val)), Ctx(a))

\* the statements that follow the pass, r being what its tokenizer returned
\* or raised
AfterPass(pass, r, lhs, inner) ==
  CASE pass = "lhs" ->
         IF r.exc # NoExc THEN EndParse(r)
         ELSE IF r.val.cls # "tuple" \/ ~ExpressionAsserts(r.val.token_list)
         THEN EndParse(Raise("AssertionError", Ctx(r)))
         ELSE IF r.val.token_list[2].string \in rule_operators
         THEN BeginPass("lhs_rule", pop_state(Ctx(r)), <<>>, <<>>)
         ELSE BeginPass("assign_RHS", Ctx(r), r.val.token_list, <<>>)
    [] pass = "assign_RHS" -> EndParse(BuildAssignment(lhs, r))
    [] pass = "lhs_rule" ->
         IF r.exc # NoExc THEN EndParse(r)
         ELSE IF r.val = None THEN EndParse(Raise("TypeError", Ctx(r)))
         ELSE LET x1 == depth_enter(Ctx(r))
              IN  IF x1.exc # NoExc THEN EndParse(Raise(x1.exc, x1))
                  ELSE BeginPass("rule_RHS", push_state(x1),
                                 r.val.token_list, <<>>)
    [] pass = "rule_RHS" ->
         IF r.exc # NoExc THEN EndParse(r)
         ELSE IF r.val = None
         THEN BeginPass("lhs_assign", pop_state(Ctx(r)), lhs, <<>>)
         ELSE IF r.val.cls # "PrerequisiteList"
                 \/ ~ExpressionAsserts(r.val.token_list)
         THEN EndParse(Raise("AssertionError", Ctx(r)))
         ELSE ReturnRule(lhs, depth_exit(r))
    [] pass = "lhs_assign" ->
         IF r.exc # NoExc THEN EndParse(r)
         ELSE IF r.val = None THEN EndParse(Raise("TypeError", Ctx(r)))
         ELSE IF r.val.token_list[2].string \notin assignment_operators
         THEN EndParse(Raise("AssertionError", Ctx(r)))
         ELSE BeginPass("target_assign_RHS", Ctx(r), lhs, r.val.token_list)
    [] pass = "target_assign_RHS" ->
         ReturnRule(lhs, depth_exit(BuildAssignment(inner, r)))

\* the driver calls tokenize_assignment_or_rule: check_depth before the call,
\* string.push_state(), and the call of tokenize_statement_LHS
CallStepwise ==
  /\ pc = "ready"
  /\ LET x1 == depth_enter(Context(idx, state_stack, depth))
         n  == BeginPass("lhs", push_state(x1), <<>>, <<>>)
     IN  IF x1.exc # NoExc
         THEN Called("tokenize_assignment_or_rule", {}, Raise(x1.exc, x1))
         ELSE /\ idx' = n.l.idx
              /\ state_stack' = n.l.state_stack
              /\ depth' = n.l.depth
              /\ locals' = [pass |-> n.pass, l |-> n.l, lhs |-> n.lhs,
                            inner |-> n.inner,
                            starts |-> <<<<n.pass, n.l.idx>>>>]
              /\ ret' = [NoRet EXCEPT !.func = "tokenize_assignment_or_rule",
                                      !.depth0 = depth]
              /\ pc' = "parsing"
              /\ UNCHANGED <<string, threads>>

\* what one iteration of the loop of the tokenizer that is running leaves:
\* the pass that runs next with its locals, and whether a pass ended with it
StepOutcome ==
  LET l2 == PassStep(string, locals.pass, locals.l)
  IN  IF l2.done
      THEN [ended |-> TRUE]
           @@ AfterPass(locals.pass, depth_exit(Outcome(l2)),
                        locals.lhs, locals.inner)
      ELSE [ended |-> FALSE, pass |-> locals.pass, l |-> l2,
            r |-> Raise("Running", l2),
            lhs |-> locals.lhs, inner |-> locals.inner]

\* one iteration of the loop of the tokenizer that is running; with the last
\* one, what follows the call up to the loop of the next tokenizer or to the
\* end of tokenize_assignment_or_rule
StatementStep ==
  /\ pc = "parsing"
  /\ \E n \in {StepOutcome} :
       IF n.pass = "return"
       THEN /\ idx' = n.r.idx
            /\ state_stack' = n.r.state_stack
            /\ depth' = n.r.depth
            /\ ret' = [ret EXCEPT !.val = n.r.val, !.exc = n.r.exc]
            /\ locals' = NoLocals
            /\ pc' = "done"
            /\ UNCHANGED <<string, threads>>
       ELSE /\ idx' = n.l.idx
            /\ state_stack' = n.l.state_stack
            /\ depth' = n.l.depth
            /\ locals' = [pass |-> n.pass, l |-> n.l, lhs |-> n.lhs,
                          inner |-> n.inner,
                          starts |-> IF n.ended
                                     THEN Append(locals.starts,
                                                 <<n.pass, n.l.idx>>)
                                     ELSE locals.starts]
            /\ UNCHANGED <<string, ret, pc, threads>>

NextSteps ==
  \/ statement_test \/ escape_test
  \/ CallStepwise \/ StatementStep \/ Discard \/ DepthReset

SpecSteps == Init /\ [][NextSteps]_vars

\* the thread that called tokenize_assignment_or_rule keeps running: weak
\* fairness of StatementStep, WF_vars(StatementStep), written out with what
\* enables a step (StatementStep is enabled exactly while the call runs, and
\* every step changes idx, the state of the loop or the pass)
SpecStepsFair ==
  SpecSteps /\ ([]<>~(pc = "parsing") \/ []<><<StatementStep>>_vars)

-----------------------------------------------------------------------------
(* Reading a reference text without the tokenizer *)

\* the characters of a reference built only from "$(", ")" and literal text
PureChars == {"a", "b", "c", "e", " ", "$", "(", ")"}

\* every "$" opens "$(" and every "(" belongs to a "$("
OnlyParenRefs(T) ==
  /\ \A i \in 1..Len(T) : T[i] \in PureChars
  /\ \A i \in 1..Len(T) : T[i] = "$" => i < Len(T) /\ T[i + 1] = "("
  /\ \A i \in 1..Len(T) : T[i] = "(" => i > 1 /\ T[i - 1] = "$"

RECURSIVE Closer(_, _, _)
\* the position of the ")" that closes the reference opened at or before i,
\* n references being open at i; 0 if the text ends first
Closer(T, i, n) ==
  IF i > Len(T) THEN 0
  ELSE IF T[i] = "$" THEN Closer(T, i + 2, n + 1)
  ELSE IF T[i] = ")" THEN IF n <= 1 THEN i ELSE Closer(T, i + 1, n - 1)
  ELSE Closer(T, i + 1, n)

Max(a, b) == IF a > b THEN a ELSE b

RECURSIVE Nesting(_, _, _)
\* the largest number of references open at once in T[i..], n being open at i,
\* up to the closer of the outermost one
Nesting(T, i, n) ==
  IF i > Len(T) THEN n
  ELSE IF T[i] = "$" THEN Max(n, Nesting(T, i + 2, n + 1))
  ELSE IF T[i] = ")" THEN IF n <= 1 THEN n ELSE Max(n, Nesting(T, i + 1, n - 1))
  ELSE Max(n, Nesting(T, i + 1, n))

RECURSIVE DeepDollar(_, _, _, _)
\* the position of the first "$" that opens a reference at nesting level k,
\* n references being open at i; 0 if the outermost reference closes first
DeepDollar(T, i, n, k) ==
  IF i > Len(T) THEN 0
  ELSE IF T[i] = "$" THEN IF n + 1 = k THEN i ELSE DeepDollar(T, i + 2, n + 1, k)
  ELSE IF T[i] = ")" THEN IF n <= 1 THEN 0 ELSE DeepDollar(T, i + 1, n - 1, k)
  ELSE DeepDollar(T, i + 1, n, k)

\* the position of the first "$" in T[lo..hi], hi + 1 if there is none
FirstDollar(T, lo, hi) ==
  IF \E i \in lo..hi : T[i] = "$"
  THEN CHOOSE i \in lo..hi : T[i] = "$" /\ \A j \in lo..(i - 1) : T[j] # "$"
  ELSE hi + 1

RECURSIVE Mirror(_, _, _)
\* the children that mirror the inner text T[lo..hi] of a reference: the
\* literal text up to a nested reference, the nested reference, and so on
Mirror(T, lo, hi) ==
  LET d == FirstDollar(T, lo, hi)
  IN  IF d > hi THEN <<Literal(SubSeq(T, lo, hi))>>
      ELSE LET m == Closer(T, d, 0)
           IN  <<Literal(SubSeq(T, lo, d - 1)), VarRef(Mirror(T, d + 2, m - 1))>>
               \o Mirror(T, m + 1, hi)

\* the driver has called tokenize_variable_ref and holds its outcome
VarRefCalled == pc = "done" /\ ret.func = "tokenize_variable_ref"

\* C7: a reference text built only from "$(" ... ")" with literal text and
\* nested "$(" ... ")" references, nested within the depth bound, is
\* tokenized without error into the VarRef tree that mirrors the text; the
\* scanner stops right after the closer of the outermost reference; and
\* makefile() of the tree is the reference text.
C7_PureReferenceMirrorsText ==
  LET m == Closer(string, 1, 0)
  IN  (/\ VarRefCalled
       /\ OnlyParenRefs(string)
       /\ m > 0
       /\ ret.depth0 + Nesting(string, 1, 0) <= DepthLimit)
      => /\ ret.exc = NoExc
         /\ ret.val = VarRef(Mirror(string, 3, m - 1))
         /\ idx = m
         /\ makefile(ret.val) = SubSeq(string, 1, m)

\* C7 witness: a reference holding two references side by side, the first
\* with a reference nested inside it, was tokenized, and text follows it
C7_Witness ==
  /\ VarRefCalled
  /\ OnlyParenRefs(string)
  /\ ret.exc = NoExc
  /\ Len(ret.val.token_list) = 5
  /\ Len(ret.val.token_list[2].token_list) = 3
  /\ ret.val.token_list[2].token_list[2].cls = "VarRef"
  /\ idx < Len(string)

\* C8 as the specification states it: the renderings of the children of the
\* VarRef returned for a delimited reference, concatenated, are the source
\* text between the opening and the closing delimiter.
C8_ChildrenReconstructInnerText ==
  (/\ VarRefCalled
   /\ ret.exc = NoExc
   /\ string[2] \in {"(", "{"})
  => Join([i \in 1..Len(ret.val.token_list) |-> makefile(ret.val.token_list[i])],
          <<>>)
     = SubSeq(string, 3, idx - 1)

\* C9: when the nesting of a reference text, counted from the depth at which
\* the driver calls tokenize_variable_ref, reaches DepthLimit + 1, the call
\* fails with NestedTooDeep and returns no tree, and the scanner stands at the
\* "$" where the rejected call was made: the rejected call read nothing.
C9_NestedTooDeepReadsNothing ==
  LET d == DeepDollar(string, 1, 0, DepthLimit + 1 - ret.depth0)
  IN  (VarRefCalled /\ OnlyParenRefs(string) /\ d > 0)
      => /\ ret.exc = "NestedTooDeep"
         /\ ret.val = None
         /\ idx = d - 1

\* C9 witness: from depth 0, the reference nested 11 deep was rejected at its
\* eleventh "$"
C9_Witness ==
  /\ VarRefCalled
  /\ ret.depth0 = 0
  /\ string = Chain(DepthLimit + 1, <<"a">>)
  /\ ret.exc = "NestedTooDeep"
  /\ idx = 3 * DepthLimit

\* C10 as the specification states it: every top-level call starts at depth
\* 0, and a reference nested within the bound is never rejected with
\* NestedTooDeep.
C10_EveryCallStartsAtDepthZero ==
  /\ pc = "ready" => depth = 0
  /\ (VarRefCalled /\ ret.exc = "NestedTooDeep")
     => Nesting(string, 1, 0) > DepthLimit


-----------------------------------------------------------------------------
(* Reading a statement text without the tokenizer *)

\* the characters of ordinary words
Ordinary == {"a", "b", "c", "d", "e", "h", "i", "l", "s", "t"}

\* a text without references, escapes and comments
Plain(T) == \A i \in 1..Len(T) : T[i] \notin {"$", "\\", "#"}

\* an operator starts at position i of T
OperatorStartsAt(T, i) ==
  \/ T[i] \in {":", "="}
  \/ T[i] \in {"?", "+", "!"} /\ i < Len(T) /\ T[i + 1] = "="

\* the position of the first operator of T, 0 if there is none
OperatorStart(T) ==
  IF \E i \in 1..Len(T) : OperatorStartsAt(T, i)
  THEN CHOOSE i \in 1..Len(T) :
         OperatorStartsAt(T, i) /\ \A j \in 1..(i - 1) : ~OperatorStartsAt(T, j)
  ELSE 0

\* the longest operator of GNU Make that starts at position p of T
OperatorText(T, p) ==
  LET at(i, c) == i <= Len(T) /\ T[i] = c
  IN  IF T[p] = ":"
      THEN IF at(p + 1, ":") /\ at(p + 2, "=") THEN <<":", ":", "=">>
           ELSE IF at(p + 1, "=") THEN <<":", "=">>
           ELSE IF at(p + 1, ":") THEN <<":", ":">>
           ELSE <<":">>
      ELSE IF T[p] = "=" THEN <<"=">>
      ELSE <<T[p], "=">>

\* the text after position p
After(T, p) == SubSeq(T, p + 1, Len(T))

RECURSIVE lstrip(_)
\* the text without its leading spaces and tabs
lstrip(T) == IF T # <<>> /\ T[1] \in whitespace THEN lstrip(Tail(T)) ELSE T

\* the length of the word that starts the text T
WordLen(T) ==
  CHOOSE n \in 0..Len(T) :
    /\ \A i \in 1..n : T[i] \notin whitespace
    /\ n < Len(T) => T[n + 1] \in whitespace

RECURSIVE SplitWords(_)
\* the words of T, which spaces and tabs separate
SplitWords(T) ==
  IF T = <<>> THEN <<>>
  ELSE IF T[1] \in whitespace THEN SplitWords(Tail(T))
  ELSE <<SubSeq(T, 1, WordLen(T))>> \o SplitWords(After(T, WordLen(T)))

\* one Literal per word
Literals(words) == [i \in 1..Len(words) |-> Literal(words[i])]

\* the driver has called tokenize_assignment_or_rule and holds its outcome
AssignmentOrRuleCalled == pc = "done" /\ ret.func = "tokenize_assignment_or_rule"

\* ... and the call returned a result
AssignmentOrRuleReturned == AssignmentOrRuleCalled /\ ret.exc = NoExc

\* C1: whenever tokenize_assignment_or_rule returns, the result is a
\* RuleExpression or an AssignmentExpression of three children; it is a
\* RuleExpression exactly when its operator is RuleOp ":" or "::", and an
\* AssignmentExpression exactly when its operator is an AssignOp of "=", "?=",
\* "+=", "!=", ":=", "::="; and in a text without references, escapes and
\* comments that operator is the longest operator at the first operator
\* position of the text.
C1_RuleIffRuleOperator ==
  AssignmentOrRuleReturned
  => LET tl == ret.val.token_list
         p  == OperatorStart(string)
     IN  /\ ret.val.cls \in {"RuleExpression", "AssignmentExpression"}
         /\ Len(tl) = 3
         /\ ret.val.cls = "RuleExpression"
            <=> (tl[2].cls = "RuleOp" /\ tl[2].string \in rule_operators)
         /\ ret.val.cls = "AssignmentExpression"
            <=> (tl[2].cls = "AssignOp" /\ tl[2].string \in assignment_operators)
         /\ Plain(string) => p > 0 /\ tl[2].string = OperatorText(string, p)

\* C1 witness: a text whose first operator is "::" came back as a
\* RuleExpression
C1_Witness ==
  /\ AssignmentOrRuleReturned
  /\ Plain(string)
  /\ OperatorText(string, OperatorStart(string)) = <<":", ":">>
  /\ ret.val.cls = "RuleExpression"

\* the text is targets, a rule operator and prerequisites, all of them
\* ordinary words with spaces and tabs around them
PlainRuleText(T) ==
  LET p == OperatorStart(T)
  IN  /\ \A i \in 1..Len(T) : T[i] \in Ordinary \cup whitespace \cup {":"}
      /\ p > 0
      /\ SplitWords(SubSeq(T, 1, p - 1)) # <<>>
      /\ \A i \in (p + Len(OperatorText(T, p)))..Len(T) : T[i] # ":"

\* the tree of a plain rule whose PrerequisiteList holds the Literals prereqs
PlainRuleTree(T, prereqs) ==
  LET p  == OperatorStart(T)
      op == OperatorText(T, p)
  IN  RuleExpression(<<Expression(Literals(SplitWords(SubSeq(T, 1, p - 1)))),
                       RuleOp(op),
                       PrerequisiteList(prereqs)>>)

\* the text after the rule operator of a plain rule
PrerequisiteText(T) ==
  After(T, OperatorStart(T) + Len(OperatorText(T, OperatorStart(T))) - 1)

\* C2 as the specification states it: a plain rule becomes a RuleExpression
\* of one Literal per target word, the RuleOp, and a PrerequisiteList of
\* exactly one Literal per prerequisite word.
C2_OneLiteralPerWord ==
  (AssignmentOrRuleCalled /\ PlainRuleText(string))
  => /\ ret.exc = NoExc
     /\ ret.val = PlainRuleTree(string,
                                Literals(SplitWords(PrerequisiteText(string))))

\* C2, amended: a plain rule becomes a RuleExpression of one Literal per
\* target word, the RuleOp, and a PrerequisiteList of one Literal per
\* prerequisite word, in source order and without whitespace in any of them,
\* followed by one empty Literal when the text after the operator is empty or
\* ends in a space or a tab.
C2_OneLiteralPerWordAndTrailingEmpty ==
  (AssignmentOrRuleCalled /\ PlainRuleText(string))
  => LET right == PrerequisiteText(string)
         last  == IF right = <<>> \/ right[Len(right)] \in whitespace
                  THEN <<Literal(<<>>)>> ELSE <<>>
     IN  /\ ret.exc = NoExc
         /\ ret.val = PlainRuleTree(string, Literals(SplitWords(right)) \o last)

\* C2 witness: "all : this is a test" came back with one target and four
\* prerequisites
C2_Witness ==
  /\ AssignmentOrRuleReturned
  /\ PlainRuleText(string)
  /\ Len(string) = 20
  /\ Len(ret.val.token_list[1].token_list) = 1
  /\ Len(ret.val.token_list[3].token_list) = 4

\* the text is targets, a rule operator, and then NAME OP VALUE with a name
\* of ordinary characters and an assignment operator OP
TargetAssignmentText(T) ==
  LET p    == OperatorStart(T)
      rest == After(T, p + Len(OperatorText(T, p)) - 1)
      q    == OperatorStart(rest)
  IN  /\ \A i \in 1..Len(T) :
           T[i] \in Ordinary \cup whitespace \cup {":", "=", "?", "+", "!", "|"}
      /\ p > 0
      /\ OperatorText(T, p) \in rule_operators
      /\ q > 0
      /\ OperatorText(rest, q) \in assignment_operators
      /\ \A i \in 1..(q - 1) : rest[i] \in Ordinary \cup whitespace
      /\ \E i \in 1..(q - 1) : rest[i] \in Ordinary

\* the AssignmentExpression of the text NAME OP VALUE: the name without the
\* whitespace around it, the operator, and all that follows the operator
\* and the whitespace after it
AssignmentTree(rest) ==
  LET q  == OperatorStart(rest)
      op == OperatorText(rest, q)
  IN  AssignmentExpression(
        <<Expression(<<Literal(rstrip(lstrip(SubSeq(rest, 1, q - 1))))>>),
          AssignOp(op),
          Expression(<<Literal(lstrip(After(rest, q + Len(op) - 1)))>>)>>)

StatementLHSCalled == pc = "done" /\ ret.func = "tokenize_statement_LHS"

\* C4: when the first operator of a text without references, escapes and
\* comments starts with ":", tokenize_statement_LHS returns the longest of
\* "::=", ":=", "::", ":" that matches there, as an AssignOp if it ends in "="
\* and as a RuleOp otherwise, and leaves the scanner right after that
\* operator, also when the operator ends the text.
C4_LongestOperator ==
  LET p  == OperatorStart(string)
      op == OperatorText(string, p)
  IN  (StatementLHSCalled /\ Plain(string) /\ p > 0 /\ string[p] = ":")
      => /\ ret.exc = NoExc
         /\ ret.val.cls = "tuple"
         /\ ret.val.token_list[2]
            = (IF op \in rule_operators THEN RuleOp(op) ELSE AssignOp(op))
         /\ idx = p - 1 + Len(op)

\* C4 witness: "::" at the end of the text was returned as RuleOp "::" with
\* the scanner at the end
C4_Witness ==
  /\ StatementLHSCalled
  /\ Plain(string)
  /\ OperatorStart(string) = Len(string) - 1
  /\ ret.exc = NoExc
  /\ ret.val.token_list[2] = RuleOp(<<":", ":">>)
  /\ idx = Len(string)

\* C5 as the specification states it: makefile() of the tree that
\* tokenize_assignment_or_rule returns is the text of the statement.
C5_RoundTrip == AssignmentOrRuleReturned => makefile(ret.val) = string

\* C6 as the specification states it: the rendering of the tree that
\* tokenize_assignment_or_rule returns is tokenized, by a fresh scanner at
\* depth 0, into an equal tree.
C6_Idempotent ==
  AssignmentOrRuleReturned
  => LET again == tokenize_assignment_or_rule(makefile(ret.val),
                                              Context(0, <<>>, depth_reset))
     IN  again.exc = NoExc /\ again.val = ret.val

-----------------------------------------------------------------------------
(* Threads *)

\* C11 as the specification states it: of two parses interleaved on two
\* threads, each of a statement nested within the bound, neither fails
\* (with NestedTooDeep or otherwise) and the depth is never negative.
C11_InterleavedParsesSucceed ==
  /\ depth >= 0
  /\ \A t \in DOMAIN threads : threads[t].exc = NoExc

-----------------------------------------------------------------------------
(* tokenize_assign_RHS *)

RECURSIVE Before(_, _)
\* the part of the text S before its first character in stops
Before(S, stops) ==
  IF S = <<>> \/ Head(S) \in stops THEN <<>>
  ELSE <<Head(S)>> \o Before(Tail(S), stops)

\* the value of the right-hand side T, read off the text
ValueText(T) == Before(lstrip(T), {"#"} \cup eol)

AssignRHSCalled == pc = "done" /\ ret.func = "tokenize_assign_RHS"

-----------------------------------------------------------------------------
(* tokenize_statement_LHS in assignment mode *)

RECURSIVE Trim(_)
\* the text without the spaces and tabs at its two ends
Trim(S) ==
  IF S = <<>> THEN S
  ELSE IF Head(S) \in whitespace THEN Trim(Tail(S))
  ELSE IF S[Len(S)] \in whitespace THEN Trim(SubSeq(S, 1, Len(S) - 1))
  ELSE S

\* a text of one line
OneLine(T) == \A i \in 1..Len(T) : T[i] \notin eol

\* the text before the first operator of T
NameText(T) == SubSeq(T, 1, OperatorStart(T) - 1)

\* a line without references, escapes and comments that has a name and
\* an operator, handed to tokenize_statement_LHS(string)
AssignmentModeCalled ==
  /\ StatementLHSCalled
  /\ ret.separators = {}
  /\ Plain(string)
  /\ OneLine(string)
  /\ OperatorStart(string) > 0
  /\ Trim(NameText(string)) # <<>>

\* C13: in assignment mode the name tokenize_statement_LHS returns is one
\* Literal, the text before the operator without the spaces and tabs at
\* its two ends and with every character in between, whitespace included,
\* unchanged.
C13_AssignmentNameOneLiteral ==
  AssignmentModeCalled =>
    /\ ret.exc = NoExc
    /\ ret.val.cls = "tuple"
    /\ ret.val.token_list[1] = Expression(<<Literal(Trim(NameText(string)))>>)

\* "  this   is   a   test   = " gives the one Literal "this   is   a   test"
\* and AssignOp "="
C13_Witness ==
  /\ AssignmentModeCalled
  /\ Len(string) = 27
  /\ ret.val = Tuple(<<Expression(<<Literal(
                         <<"t", "h", "i", "s", " ", " ", " ", "i", "s", " ",
                           " ", " ", "a", " ", " ", " ", "t", "e", "s", "t">>)>>),
                       AssignOp(<<"=">>)>>)

-----------------------------------------------------------------------------
(* ScannerIterator *)

\* the step is a call of the ScannerIterator method func
ScannerStep(func) == pc' = "done" /\ ret'.func = func /\ ret' # ret

\* C14: next() returns the character at the position and moves the position
\* on by exactly one; lookahead() returns that character and leaves the
\* position; at the end of the text both raise StopIteration and leave the
\* position; and after any sequence of next, lookahead, pushback,
\* push_state and pop_state calls 0 <= idx <= len(string).
C14_NextLookaheadAndRange ==
  /\ [](0 <= idx /\ idx <= Len(string))
  /\ [][/\ ScannerStep("next") =>
             IF idx < Len(string)
             THEN /\ ret'.exc = NoExc
                  /\ ret'.val = Str(string[idx + 1])
                  /\ idx' = idx + 1
             ELSE ret'.exc = "StopIteration" /\ idx' = idx
        /\ ScannerStep("lookahead") =>
             IF idx < Len(string)
             THEN /\ ret'.exc = NoExc
                  /\ ret'.val = Str(string[idx + 1])
                  /\ idx' = idx
             ELSE ret'.exc = "StopIteration" /\ idx' = idx]_vars

\* next() returned the last character of a text whose position had been
\* moved back and restored before
C14_Witness ==
  /\ pc = "done"
  /\ ret.func = "next"
  /\ ret.exc = NoExc
  /\ Len(string) = 3
  /\ idx = Len(string)
  /\ ret.val = Str(string[idx])
  /\ state_stack # <<>>

\* C15: push_state() records the position and leaves it; next, lookahead
\* and pushback leave what is recorded; pop_state() sets the position to
\* the one recorded last and not yet popped and forgets it, so that nested
\* pairs restore last-in-first-out.
C15_PopRestoresLastPush ==
  [][/\ ScannerStep("push_state") =>
          idx' = idx /\ state_stack' = Append(state_stack, idx)
     /\ (ScannerStep("next") \/ ScannerStep("lookahead")
         \/ ScannerStep("pushback")) =>
          state_stack' = state_stack
     /\ ScannerStep("pop_state") /\ state_stack # <<>> =>
          /\ ret'.exc = NoExc
          /\ idx' = state_stack[Len(state_stack)]
          /\ state_stack' = SubSeq(state_stack, 1, Len(state_stack) - 1)]_vars

\* the inner of two nested push_state/pop_state pairs has restored position 2
\* from position 0; the outer push, of position 3, is still recorded
C15_Witness ==
  /\ pc = "done"
  /\ ret.func = "pop_state"
  /\ ret.exc = NoExc
  /\ idx = 2
  /\ state_stack = <<3>>

-----------------------------------------------------------------------------
(* pushback at position 0 *)

Tokenizers ==
  {"tokenize_assignment_or_rule", "tokenize_statement_LHS", "tokenize_rule_RHS",
   "tokenize_assign_RHS", "tokenize_variable_ref", "tokenize_recipe", "comment"}

\* the driver has called a tokenizer on a fresh scanner and holds its outcome
TokenizerCalled == pc = "done" /\ ret.func \in Tokenizers

\* C16: pushback() at position 0 raises StopIteration and leaves the position
\* at 0; and no tokenizer started on a fresh scanner makes that call: a
\* tokenizer that ends with StopIteration has read the whole of a non-empty
\* text (the failure is the one of reading at the end of the text), while a
\* failed pushback would have left the scanner at position 0.
C16_NoPushbackAtZero ==
  /\ [](TokenizerCalled /\ ret.exc = "StopIteration"
          => idx = Len(string) /\ idx > 0)
  /\ [][ScannerStep("pushback") /\ idx = 0
          => ret'.exc = "StopIteration" /\ idx' = 0]_vars

\* the double pushback before the jump to tokenize_variable_ref moved the
\* scanner back to position 0, from where the reference was read
C16_Witness ==
  /\ TokenizerCalled
  /\ ret.func = "tokenize_assign_RHS"
  /\ Len(string) >= 2
  /\ string[1] = "$"
  /\ string[2] = "("
  /\ ret.exc = NoExc
  /\ Len(ret.val.token_list) >= 2
  /\ ret.val.token_list[2].cls = "VarRef"

-----------------------------------------------------------------------------
(* comment *)

\* the driver has called comment on a scanner positioned at a "#"
CommentCalled ==
  /\ pc = "done"
  /\ ret.func = "comment"
  /\ string # <<>>
  /\ string[1] = "#"

\* the text of the comment that starts T, without the newline that ends it
CommentText(T) == Before(T, {"\n"})

\* C17 as the specification states it: comment() returns with the scanner
\* at the newline that ends the comment, the newline unread, or at the end
\* of the input when there is no newline.
C17_NewlineLeftUnread ==
  CommentCalled =>
    /\ ret.exc = NoExc
    /\ idx = Len(CommentText(string))

\* C17: comment() reads the "#" and every character after it through the
\* next newline, that newline included: it returns with the scanner right
\* after the newline, or at the end of the input when there is no newline.
C17_NewlineConsumed ==
  CommentCalled =>
    /\ ret.exc = NoExc
    /\ ret.val = None
    /\ idx = IF Len(CommentText(string)) < Len(string)
             THEN Len(CommentText(string)) + 1
             ELSE Len(string)

\* comment() on "#a", newline, newline, "b" returned after the first newline
C17_Witness ==
  /\ CommentCalled
  /\ string = <<"#", "a", "\n", "\n", "b">>
  /\ ret.exc = NoExc
  /\ idx = 3

-----------------------------------------------------------------------------
(* references the input ends in *)

\* the characters of the text T
Chars(T) == {T[i] : i \in 1..Len(T)}

\* T opens a reference with "$(" or "${" and holds no closer at all
OpenedNeverClosed(T) ==
  /\ Len(T) >= 2
  /\ T[1] = "$"
  /\ T[2] \in {"(", "{"}
  /\ Chars(T) \cap {")", "}"} = {}

\* the one "$" of the line T is its last character, outside any comment
EndsInLoneDollar(T) ==
  /\ T # <<>>
  /\ T[Len(T)] = "$"
  /\ \A i \in 1..(Len(T) - 1) : T[i] \notin {"$", "#", "\\"}
  /\ OneLine(T)

\* the tokenizers that read references
ReferenceTokenizers ==
  {"tokenize_assignment_or_rule", "tokenize_statement_LHS", "tokenize_rule_RHS",
   "tokenize_assign_RHS", "tokenize_variable_ref"}

\* C18 as the specification states it: a reference the input ends in is
\* answered with ParseError, by tokenize_variable_ref for a "$(" or "${"
\* without closer and by every tokenizer for a "$" that ends the input;
\* no tree is returned and no other error raised.
C18_UnterminatedIsParseError ==
  /\ VarRefCalled /\ OpenedNeverClosed(string) => ret.exc = "ParseError"
  /\ TokenizerCalled /\ ret.func \in ReferenceTokenizers
       /\ EndsInLoneDollar(string) => ret.exc = "ParseError"

-----------------------------------------------------------------------------
(* statements without operator *)

\* position i of T is inside a comment: a "#" precedes it on its line
InComment(T, i) ==
  \E j \in 1..(i - 1) : T[j] = "#" /\ \A k \in j..i : T[k] # "\n"

\* no rule or assignment operator can be found in T: every ":" and "=" of
\* it is inside a comment (a text with "#" has no "$", so that every "#"
\* starts a comment)
NoOperator(T) ==
  /\ \A i \in 1..Len(T) : T[i] \in {":", "="} => InComment(T, i)
  /\ "$" \notin Chars(T) \/ "#" \notin Chars(T)

\* C19: on a text in which no operator can be found (a bare word, an empty
\* line, a line that is only a comment) tokenize_assignment_or_rule fails:
\* it returns no RuleExpression and no AssignmentExpression.
C19_NoOperatorNoStatement ==
  pc = "done" /\ ret.func = "tokenize_assignment_or_rule" /\ NoOperator(string)
    => ret.exc # NoExc /\ ret.val = None

\* the bare word "foo bar" was refused by the assertion on the value of
\* tokenize_statement_LHS
C19_Witness ==
  /\ pc = "done"
  /\ ret.func = "tokenize_assignment_or_rule"
  /\ string = <<"f", "o", "o", " ", "b", "a", "r">>
  /\ ret.exc = "AssertionError"

-----------------------------------------------------------------------------
(* termination of tokenize_recipe *)

\* C20 as the specification states it: every call of tokenize_recipe comes
\* to its end, a RecipeList or an error, after finitely many iterations of
\* its loop.
C20_RecipeTerminates == (pc = "running") ~> (pc = "done")

-----------------------------------------------------------------------------
(* the line that ends a recipe list *)

\* the driver has called tokenize_recipe and holds its outcome
RecipeCalled == pc = "done" /\ ret.func = "tokenize_recipe"

\* T starts with recipe lines, each with the recipe prefix, and position p
\* starts its first line without the prefix, a line that is not blank
RecipeListEndsAt(T, p) ==
  /\ T[1] = recipe_prefix
  /\ T[p - 1] = "\n"
  /\ T[p] \notin whitespace \cup eol
  /\ \A q \in 2..(p - 1) : T[q - 1] = "\n" => T[q] = recipe_prefix

\* C21 as the specification states it: at the first line without the recipe
\* prefix tokenize_recipe returns the RecipeList of the lines before it and
\* leaves the scanner at the first character of that line; it does not fail.
C21_UnprefixedLineEndsRecipeList ==
  \A p \in 2..Len(string) :
    RecipeCalled /\ RecipeListEndsAt(string, p) =>
      /\ ret.exc = NoExc
      /\ ret.val.cls = "RecipeList"
      /\ idx = p - 1

-----------------------------------------------------------------------------
(* equality of Symbols *)

\* the two operands and the outcome of the == internal_tests evaluated
Compared == pc = "done" /\ ret.func = "__eq__"

\* C22: two Literals, or two operators of one kind, are equal exactly when
\* their text is; two Expressions are equal exactly when they have as many
\* children one as the other and every child of the one is of the class of
\* its counterpart and recursively equal to it, that is, when the two
\* sequences of children are the same trees.
C22_StructuralEquality ==
  Compared =>
    LET lhs == ret.val.token_list[1]
        rhs == ret.val.token_list[2]
        equal == ret.exc = NoExc /\ ret.val.token_list[3] = Bool(TRUE)
        unequal == ret.exc = NoExc /\ ret.val.token_list[3] = Bool(FALSE)
    IN  /\ lhs.cls = rhs.cls /\ lhs.cls \notin ExpressionClasses =>
             IF lhs.string = rhs.string THEN equal ELSE unequal
        /\ lhs.cls \in ExpressionClasses /\ rhs.cls \in ExpressionClasses =>
             IF lhs.token_list = rhs.token_list THEN equal ELSE unequal

\* two rules that differ only in ":" and "::" compared unequal
C22_Witness ==
  /\ Compared
  /\ ret.val.token_list[1].cls = "RuleExpression"
  /\ ret.val.token_list[2].cls = "RuleExpression"
  /\ ret.val.token_list[1].token_list[2] = RuleOp(<<":">>)
  /\ ret.val.token_list[2].token_list[2] = RuleOp(<<":", ":">>)
  /\ ret.val.token_list[1].token_list[3] = ret.val.token_list[2].token_list[3]
  /\ ret.val.token_list[3] = Bool(FALSE)

-----------------------------------------------------------------------------
(* rules without prerequisites *)

\* T is a line without references, escapes and comments whose first
\* operator is a rule operator with nothing but spaces and tabs after it
NoPrerequisitesText(T) ==
  LET p == OperatorStart(T)
  IN  /\ Plain(T)
      /\ OneLine(T)
      /\ p > 0
      /\ OperatorText(T, p) \in rule_operators
      /\ \A i \in (p + Len(OperatorText(T, p)))..Len(T) : T[i] \in whitespace

\* C23: for a rule with nothing, or only spaces and tabs, after the rule
\* operator tokenize_assignment_or_rule returns a RuleExpression of three
\* children whose third child is a PrerequisiteList with one child, the
\* empty Literal.
C23_NoPrerequisitesOneEmptyLiteral ==
  AssignmentOrRuleCalled /\ NoPrerequisitesText(string) =>
    /\ ret.exc = NoExc
    /\ ret.val.cls = "RuleExpression"
    /\ Len(ret.val.token_list) = 3
    /\ ret.val.token_list[3] = PrerequisiteList(<<Literal(<<>>)>>)

\* "a:" followed by a tab gave the PrerequisiteList of one empty Literal
C23_Witness ==
  /\ AssignmentOrRuleCalled
  /\ string = <<"a", ":", "\t">>
  /\ ret.val.cls = "RuleExpression"
  /\ ret.val.token_list[3] = PrerequisiteList(<<Literal(<<>>)>>)

-----------------------------------------------------------------------------
(* "?", "+" and "!" in the left-hand side *)

\* C24 as the specification states it: on a text without references,
\* escapes and comments tokenize_statement_LHS ends the left-hand side at the
\* first "=", as AssignOp "=", or "?=", "+=", "!=", as that two-character
\* AssignOp; a "?", "+" or "!" without "=" after it is content of the
\* name, so that a text without any operator is read to its end without
\* failure, also when its last character is a "?", "+" or "!".
C24_OperatorNeedsEquals ==
  StatementLHSCalled /\ Plain(string) =>
    LET p == OperatorStart(string)
    IN  /\ p = 0 => ret.exc = NoExc
        /\ p > 0 /\ string[p] \in {"?", "+", "!", "="} =>
             /\ ret.exc = NoExc
             /\ ret.val.token_list[2] = AssignOp(OperatorText(string, p))

-----------------------------------------------------------------------------
(* backslashes in the left-hand side *)

\* the characters a backslash escapes
Escapable == {"%", " ", ":", ","}

RECURSIVE FirstOperator(_, _)
\* the position, from i on, of the first ":" or "=" of T that no backslash
\* precedes, 0 if there is none
FirstOperator(T, i) ==
  IF i > Len(T) THEN 0
  ELSE IF T[i] = "\\" THEN FirstOperator(T, i + 2)
  ELSE IF T[i] \in {":", "="} THEN i
  ELSE FirstOperator(T, i + 1)

RECURSIVE WellEscaped(_)
\* S is made of ordinary characters and of pairs of a backslash and a
\* character
WellEscaped(S) ==
  \/ S = <<>>
  \/ /\ S[1] = "\\"
     /\ Len(S) >= 2
     /\ WellEscaped(SubSeq(S, 3, Len(S)))
  \/ /\ S[1] \notin whitespace \cup eol \cup {"\\", "?", "+", "!", "$", "#", ":", "="}
     /\ WellEscaped(Tail(S))

RECURSIVE Unescape(_)
\* what the pairs and characters of S contribute: the character of a pair
\* with an escapable character, everything else unchanged
Unescape(S) ==
  IF S = <<>> THEN <<>>
  ELSE IF S[1] = "\\" /\ Len(S) >= 2
  THEN (IF S[2] \in Escapable THEN <<S[2]>> ELSE <<"\\", S[2]>>)
       \o Unescape(SubSeq(S, 3, Len(S)))
  ELSE <<S[1]>> \o Unescape(Tail(S))

\* the text before the first operator of T that is not escaped
EscapedName(T) == SubSeq(T, 1, FirstOperator(T, 1) - 1)

\* tokenize_statement_LHS was called, in either mode, on a name of ordinary
\* characters and escapes, followed by an operator
EscapedNameCalled ==
  /\ StatementLHSCalled
  /\ FirstOperator(string, 1) > 1
  /\ WellEscaped(EscapedName(string))

\* C25 as the specification states it: the name comes back as one Literal in
\* which every backslash with "%", space, ":" or "," after it has left that
\* character alone, and every other backslash itself and the character
\* after it; an escaped ":" does not end the name, and an escaped space
\* neither splits it nor is stripped from it.
C25_EscapesKeptInName ==
  EscapedNameCalled =>
    /\ ret.exc = NoExc
    /\ ret.val.token_list[1]
       = Expression(<<Literal(Unescape(EscapedName(string)))>>)

-----------------------------------------------------------------------------
(* the children of a statement *)

\* the statement handed to AssignmentExpression( statement ) after the
\* left-hand side lhs, if tokenizing gets that far
StatementsAfter(T, lhs) ==
  LET a == tokenize_assign_RHS(T, Ctx(lhs))
  IN  IF a.exc # NoExc THEN {} ELSE {Append(lhs.val.token_list, a.val)}

\* ... on the path of a target-specific assignment, after the rule-mode
\* left-hand side lhs
TargetSpecificStatements(T, lhs) ==
  LET x1  == depth_enter(Ctx(lhs))
      rhs == tokenize_rule_RHS(T, push_state(x1))
      re  == tokenize_statement_LHS(T, pop_state(Ctx(rhs)), {})
  IN  IF x1.exc # NoExc \/ rhs.exc # NoExc \/ rhs.val # None THEN {}
      ELSE IF re.exc # NoExc \/ re.val = None THEN {}
      ELSE IF re.val.token_list[2].string \notin assignment_operators THEN {}
      ELSE StatementsAfter(T, re)

\* every statement handed to the constructor of AssignmentExpression while
\* tokenize_assignment_or_rule runs on T, entered at nesting depth d
AssignmentStatements(T, d) ==
  LET x1  == depth_enter(Context(0, <<>>, d))
      lhs == tokenize_statement_LHS(T, push_state(x1), {})
      re  == tokenize_statement_LHS(T, pop_state(Ctx(lhs)), whitespace)
  IN  IF x1.exc # NoExc \/ lhs.exc # NoExc \/ lhs.val = None THEN {}
      ELSE IF lhs.val.token_list[2].string \notin rule_operators
      THEN StatementsAfter(T, lhs)
      ELSE IF re.exc # NoExc \/ re.val = None THEN {}
      ELSE TargetSpecificStatements(T, re)

\* an Expression or one of its subclasses
IsExpression(s) ==
  s.cls \in {"Expression", "VarRef", "AssignmentExpression", "RuleExpression",
             "PrerequisiteList", "Recipe", "RecipeList"}

\* an operator of the vocabulary, of the class its text belongs to
IsStatementOperator(s) ==
  \/ s.cls = "RuleOp" /\ s.string \in {<<":">>, <<":", ":">>}
  \/ /\ s.cls = "AssignOp"
     /\ s.string \in {<<"=">>, <<"?", "=">>, <<":", "=">>, <<":", ":", "=">>,
                      <<"+", "=">>, <<"!", "=">>}

\* C26: every tree that tokenize_assignment_or_rule returns has three
\* children: an Expression, an operator of the vocabulary (":" or "::" as
\* RuleOp, "=", "?=", ":=", "::=", "+=", "!=" as AssignOp), and then an
\* Expression under an AssignmentExpression, a PrerequisiteList or an
\* AssignmentExpression under a RuleExpression; and every statement handed
\* to the constructor of AssignmentExpression on the way has three children,
\* an Expression, an AssignOp and an Expression, so that its assertions hold.
C26_ThreeWellTypedChildren ==
  AssignmentOrRuleCalled =>
    /\ \A statement \in AssignmentStatements(string, ret.depth0) :
         /\ Len(statement) = 3
         /\ IsExpression(statement[1])
         /\ statement[2].cls = "AssignOp"
         /\ IsExpression(statement[3])
    /\ ret.exc = NoExc =>
         LET children == ret.val.token_list
         IN  /\ Len(children) = 3
             /\ IsExpression(children[1])
             /\ IsStatementOperator(children[2])
             /\ ret.val.cls = "AssignmentExpression" =>
                  /\ children[2].cls = "AssignOp"
                  /\ IsExpression(children[3])
             /\ ret.val.cls = "RuleExpression" =>
                  /\ children[2].cls = "RuleOp"
                  /\ children[3].cls \in {"PrerequisiteList", "AssignmentExpression"}
             /\ ret.val.cls \in {"AssignmentExpression", "RuleExpression"}

\* a rule with a target-specific assignment was returned: both constructors
\* ran
C26_Witness ==
  /\ AssignmentOrRuleReturned
  /\ ret.val.cls = "RuleExpression"
  /\ ret.val.token_list[3].cls = "AssignmentExpression"
  /\ AssignmentStatements(string, ret.depth0) # {}

-----------------------------------------------------------------------------
(* checkpoints left behind *)

\* C27 as the specification states it: when tokenize_assignment_or_rule
\* returns, on a scanner that had no checkpoint when it was called, the
\* scanner has no checkpoint: every push_state was matched by a pop_state.
C27_CheckpointsBalanced ==
  AssignmentOrRuleReturned => state_stack = <<>>

-----------------------------------------------------------------------------
(* the ends of a prerequisite list *)

\* tokenize_rule_RHS was called and stopped at ";", at "#" or at the end of
\* the text: it returned, and not None
RuleRHSStopped ==
  /\ pc = "done"
  /\ ret.func = "tokenize_rule_RHS"
  /\ ret.exc = NoExc
  /\ ret.val # None

\* C28 as the specification states it: whenever tokenize_rule_RHS stops at
\* ";", at "#" or at the end of the text, what it returns is a
\* PrerequisiteList, so that the assertion isinstance(rhs,PrerequisiteList)
\* of tokenize_rule_prereq_or_assign holds.
C28_StopsWithPrerequisiteList ==
  RuleRHSStopped => ret.val.cls = "PrerequisiteList"

-----------------------------------------------------------------------------
(* "not a prerequisite list" *)

\* tokenize_rule_RHS was called and returned None
RuleRHSGaveUp ==
  /\ pc = "done"
  /\ ret.func = "tokenize_rule_RHS"
  /\ ret.exc = NoExc
  /\ ret.val = None

\* the left-hand side ends in an AssignOp of the vocabulary
EndsInAssignOp(lhs) ==
  /\ lhs.exc = NoExc
  /\ lhs.val # None
  /\ Len(lhs.val.token_list) = 2
  /\ lhs.val.token_list[2].cls = "AssignOp"
  /\ lhs.val.token_list[2].string \in
       {<<"=">>, <<"?", "=">>, <<":", "=">>, <<":", ":", "=">>, <<"+", "=">>,
        <<"!", "=">>}

\* the outcomes of the re-run of tokenize_statement_LHS in
\* tokenize_rule_prereq_or_assign while tokenize_assignment_or_rule runs on
\* T, entered at nesting depth d: one if tokenize_rule_RHS returned None,
\* none otherwise
Retokenized(T, d) ==
  LET x1  == depth_enter(Context(0, <<>>, d))
      lhs == tokenize_statement_LHS(T, push_state(x1), {})
      re  == tokenize_statement_LHS(T, pop_state(Ctx(lhs)), whitespace)
      x2  == depth_enter(Ctx(re))
      rhs == tokenize_rule_RHS(T, push_state(x2))
  IN  IF x1.exc # NoExc \/ lhs.exc # NoExc \/ lhs.val = None THEN {}
      ELSE IF lhs.val.token_list[2].string \notin rule_operators THEN {}
      ELSE IF re.exc # NoExc \/ re.val = None \/ x2.exc # NoExc THEN {}
      ELSE IF rhs.exc # NoExc \/ rhs.val # None THEN {}
      ELSE {tokenize_statement_LHS(T, pop_state(Ctx(rhs)), {})}

\* C29: whenever tokenize_rule_RHS returns None, tokenize_statement_LHS run
\* in assignment mode from the position where tokenize_rule_RHS started ends
\* in an AssignOp of the vocabulary, not in a RuleOp and not at the end of
\* the text; so within tokenize_assignment_or_rule the assertion on the
\* re-run holds, and a rule that is returned after it has an
\* AssignmentExpression of Expression, AssignOp, Expression as third child.
C29_GivenUpMeansAssignment ==
  /\ RuleRHSGaveUp =>
       EndsInAssignOp(tokenize_statement_LHS(string,
                                             Context(0, <<>>, ret.depth0), {}))
  /\ AssignmentOrRuleCalled =>
       \A re \in Retokenized(string, ret.depth0) :
         /\ EndsInAssignOp(re)
         /\ ret.exc \notin {"AssertionError", "TypeError"}
         /\ ret.exc = NoExc =>
              /\ ret.val.cls = "RuleExpression"
              /\ ret.val.token_list[3].cls = "AssignmentExpression"
              /\ Len(ret.val.token_list[3].token_list) = 3
              /\ IsExpression(ret.val.token_list[3].token_list[1])
              /\ ret.val.token_list[3].token_list[2] = re.val.token_list[2]
              /\ IsExpression(ret.val.token_list[3].token_list[3])

\* tokenize_rule_RHS gave up in the middle of ":=", after a word
C29_Witness ==
  /\ RuleRHSGaveUp
  /\ string = <<"a", ":", "=">>
  /\ idx = 3

-----------------------------------------------------------------------------
(* the two passes over the targets of a rule *)

\* the left-hand side was returned and ends in a RuleOp
EndsInRuleOp(lhs) ==
  /\ lhs.exc = NoExc
  /\ lhs.val # None
  /\ lhs.val.token_list[2].cls = "RuleOp"

\* the first pass of tokenize_assignment_or_rule over T, entered at nesting
\* depth d: assignment mode, from a checkpoint
FirstPass(T, d) ==
  tokenize_statement_LHS(T, push_state(depth_enter(Context(0, <<>>, d))), {})

\* the second pass: rule mode, from the restored checkpoint
SecondPass(T, d) ==
  tokenize_statement_LHS(T, pop_state(Ctx(FirstPass(T, d))), whitespace)

\* C30: when the assignment-mode pass of tokenize_statement_LHS ends in a
\* RuleOp, the rule-mode pass from the same position returns too, ends in
\* the same RuleOp and leaves the scanner at the same position; so it is
\* for the two passes inside tokenize_assignment_or_rule, and so it is for a
\* rule-mode call compared with the assignment-mode call on the same text.
C30_SecondPassSameOperator ==
  /\ AssignmentOrRuleCalled /\ EndsInRuleOp(FirstPass(string, ret.depth0)) =>
       LET first  == FirstPass(string, ret.depth0)
           second == SecondPass(string, ret.depth0)
       IN  /\ EndsInRuleOp(second)
           /\ second.val.token_list[2] = first.val.token_list[2]
           /\ second.idx = first.idx
           /\ ret.exc = NoExc => ret.val.token_list[2] = first.val.token_list[2]
  /\ StatementLHSCalled /\ ret.separators = whitespace =>
       LET first == tokenize_statement_LHS(string,
                                           Context(0, <<>>, ret.depth0), {})
       IN  EndsInRuleOp(first) =>
             /\ ret.exc = NoExc
             /\ ret.val # None
             /\ ret.val.token_list[2] = first.val.token_list[2]
             /\ idx = first.idx

\* the rule-mode pass split "a a:" in two targets where the assignment-mode
\* pass reads one name
C30_Witness ==
  /\ StatementLHSCalled
  /\ ret.separators = whitespace
  /\ ret.exc = NoExc
  /\ Len(ret.val.token_list[1].token_list) = 2
  /\ ret.val.token_list[2] = RuleOp(<<":">>)
  /\ EndsInRuleOp(tokenize_statement_LHS(string, Context(0, <<>>, ret.depth0), {}))

-----------------------------------------------------------------------------
(* "$$" *)

RECURSIVE Paired(_)
\* every "$" of S is half of a "$$"
Paired(S) ==
  \/ S = <<>>
  \/ S[1] # "$" /\ Paired(Tail(S))
  \/ Len(S) >= 2 /\ S[1] = "$" /\ S[2] = "$" /\ Paired(SubSeq(S, 3, Len(S)))

RECURSIVE Pairs(_)
\* the number of "$$" in S, read from the left
Pairs(S) ==
  IF Len(S) < 2 THEN 0
  ELSE IF S[1] = "$" /\ S[2] = "$" THEN 1 + Pairs(SubSeq(S, 3, Len(S)))
  ELSE Pairs(Tail(S))

RECURSIVE CountDollars(_)
\* the number of "$" in the text S
CountDollars(S) ==
  IF S = <<>> THEN 0
  ELSE (IF S[1] = "$" THEN 1 ELSE 0) + CountDollars(Tail(S))

RECURSIVE LiteralDollars(_), LiteralDollarsOf(_)
\* the number of "$" in the Literals of the tree s
LiteralDollars(s) ==
  (IF s.cls = "Literal" THEN CountDollars(s.string) ELSE 0)
  + LiteralDollarsOf(s.token_list)

\* ... of the trees of tl
LiteralDollarsOf(tl) ==
  IF tl = <<>> THEN 0
  ELSE LiteralDollars(tl[1]) + LiteralDollarsOf(Tail(tl))

RECURSIVE HasVarRef(_), AnyHasVarRef(_)
\* there is a VarRef in the tree s
HasVarRef(s) == s.cls = "VarRef" \/ AnyHasVarRef(s.token_list)

\* ... in one of the trees of tl
AnyHasVarRef(tl) ==
  IF tl = <<>> THEN FALSE ELSE HasVarRef(tl[1]) \/ AnyHasVarRef(Tail(tl))

\* the part of the text the scanner has read
Read == SubSeq(string, 1, idx)

\* in the statement tokenizers, on a text whose every "$" is half of a "$$":
\* no reference is tokenized (no VarRef, no ParseError), and a returned tree
\* has one "$" in its Literals for every "$$" read
DollarPairsFoldedInStatements ==
  /\ pc = "done"
  /\ ret.func \in {"tokenize_assignment_or_rule", "tokenize_statement_LHS",
                   "tokenize_rule_RHS", "tokenize_assign_RHS"}
  /\ Paired(string)
  => /\ ret.exc # "ParseError"
     /\ ret.exc = NoExc /\ ret.val # None =>
          /\ ~HasVarRef(ret.val)
          /\ LiteralDollars(ret.val) = Pairs(Read)

\* in a reference "$(...)" whose every other "$" is half of a "$$": the
\* VarRef returned has no VarRef in it, and one "$" in its Literals for every
\* "$$" read
DollarPairsFoldedInReference ==
  /\ pc = "done"
  /\ ret.func = "tokenize_variable_ref"
  /\ Len(string) >= 2
  /\ string[1] = "$"
  /\ string[2] = "("
  /\ Paired(SubSeq(string, 3, Len(string)))
  => /\ ret.exc = NoExc =>
          /\ ret.val.cls = "VarRef"
          /\ ~AnyHasVarRef(ret.val.token_list)
          /\ LiteralDollars(ret.val) = Pairs(SubSeq(string, 3, idx))
     /\ Pairs(SubSeq(string, 3, Len(string))) > 0 /\ string[Len(string)] = ")"
          => ret.exc = NoExc

\* tokenize_recipe runs on a recipe line with a "$$", every "$" half of one
RecipeOnDollarPair ==
  /\ pc = "running"
  /\ ret.func = "tokenize_recipe"
  /\ Paired(string)
  /\ Pairs(string) > 0
  /\ string[1] = "\t"

\* tokenize_recipe has returned a RecipeList without VarRef, with one "$" in
\* its Literals for every "$$" read
RecipeFoldedDollarPairs ==
  /\ pc = "done"
  /\ ret.func = "tokenize_recipe"
  /\ ret.exc = NoExc
  /\ ~HasVarRef(ret.val)
  /\ LiteralDollars(ret.val) = Pairs(Read)
  /\ Pairs(Read) > 0

\* C31 as the specification states it: in tokenize_statement_LHS,
\* tokenize_rule_RHS, tokenize_assign_RHS, tokenize_recipe and inside a
\* reference "$(...)", a "$$" becomes one "$" of the Literal being
\* accumulated, and no reference is tokenized for it.
C31_DollarPairsFolded ==
  /\ [](DollarPairsFoldedInStatements /\ DollarPairsFoldedInReference)
  /\ RecipeOnDollarPair ~> RecipeFoldedDollarPairs

-----------------------------------------------------------------------------
(* a comment in the left-hand side *)

\* the position of the first "#" of T, 0 if there is none
CommentStart(T) ==
  IF \E i \in 1..Len(T) : T[i] = "#"
  THEN CHOOSE i \in 1..Len(T) : T[i] = "#" /\ \A j \in 1..(i - 1) : T[j] # "#"
  ELSE 0

\* the position where the line of position p of T ends: its "\n", or the
\* end of T
LineEnd(T, p) ==
  IF \E i \in p..Len(T) : T[i] = "\n"
  THEN CHOOSE i \in p..Len(T) : T[i] = "\n" /\ \A j \in p..(i - 1) : T[j] # "\n"
  ELSE Len(T)

\* tokenize_statement_LHS was called on a text with a "#" before any
\* operator, reference or escape
CommentInLHSCalled ==
  /\ StatementLHSCalled
  /\ CommentStart(string) > 0
  /\ \A i \in 1..(CommentStart(string) - 1) :
       /\ ~OperatorStartsAt(string, i)
       /\ string[i] \notin {"$", "\\"}

\* C32 as the specification states it: when tokenize_statement_LHS meets "#"
\* before any operator, the left-hand side ends with the line of the comment:
\* the scanner reads no character of a following line, and no operator is
\* returned, as none stands before the comment.
C32_CommentEndsLHS ==
  CommentInLHSCalled =>
    /\ idx <= LineEnd(string, CommentStart(string))
    /\ ret.exc = NoExc => ret.val = None

-----------------------------------------------------------------------------
(* "|" and ":" among the prerequisites *)

\* C33 as the specification states it: tokenize_rule_RHS returns no
\* prerequisite list after it has read a "|" or a ":" (on a text without
\* comments, references, escapes and ";", where every character read is
\* one of the prerequisites): it fails or returns None.
C33_MarkersNotDropped ==
  /\ RuleRHSStopped
  /\ \A i \in 1..Len(string) : string[i] \notin {"#", "$", "\\", ";"}
  => \A i \in 1..idx : string[i] \notin {"|", ":"}

-----------------------------------------------------------------------------
(* the depth counter and the calls in progress *)

\* the number of guarded tokenizer calls in progress: between two calls of
\* the driver none, between two iterations of tokenize_recipe one
ActiveCalls == IF pc = "running" THEN 1 ELSE 0

\* a guarded call that returned normally left the counter at its value at
\* entry, and the counter is not negative
DepthRestoredOnReturn ==
  /\ pc = "done" /\ ret.func \in Tokenizers /\ ret.exc = NoExc
       => depth = ret.depth0
  /\ depth >= 0

\* C34 as the specification states it: a guarded call that returns normally
\* leaves the depth counter at its value at entry; the counter is the number
\* of guarded calls in progress, and never negative.
C34_DepthCountsActiveCalls ==
  /\ DepthRestoredOnReturn
  /\ depth = ActiveCalls

-----------------------------------------------------------------------------
(* nested references in a statement *)

\* the driver called tokenize_variable_ref or tokenize_assignment_or_rule on
\* a fresh depth counter, on a text whose references are nested at most 10
\* deep
NestedWithinBoundCalled ==
  /\ pc = "done"
  /\ ret.func \in {"tokenize_variable_ref", "tokenize_assignment_or_rule"}
  /\ ret.depth0 = 0
  /\ Nesting(string, 1, 0) <= 10

\* C35 as the specification states it: a reference nested at most 10 deep
\* is not refused for its nesting, parsed directly by tokenize_variable_ref
\* or inside a statement parsed by tokenize_assignment_or_rule on a fresh
\* depth counter.
C35_NestingWithinBoundAccepted ==
  NestedWithinBoundCalled => ret.exc # "NestedTooDeep"

\* the position of the first "$" of T, 0 if there is none
FirstDollarAt(T) ==
  IF \E i \in 1..Len(T) : T[i] = "$"
  THEN CHOOSE i \in 1..Len(T) : T[i] = "$" /\ \A j \in 1..(i - 1) : T[j] # "$"
  ELSE 0

\* the number of guarded tokenizer calls around the first reference of the
\* statement T: tokenize_assignment_or_rule and tokenize_statement_LHS around
\* a target or name, tokenize_assignment_or_rule and tokenize_assign_RHS
\* around the value of an assignment, and behind a rule operator
\* tokenize_rule_prereq_or_assign too
EnclosingCalls(T) ==
  LET p == OperatorStart(T)
  IN  IF FirstDollarAt(T) < p \/ T[p] = "=" THEN 2 ELSE 3

\* the driver called, on a fresh depth counter, tokenize_variable_ref on a
\* reference, or tokenize_assignment_or_rule on a statement with a reference
NestedCalled ==
  /\ pc = "done"
  /\ ret.depth0 = 0
  /\ FirstDollarAt(string) > 0
  /\ \/ ret.func = "tokenize_variable_ref" /\ string[1] = "$"
     \/ ret.func = "tokenize_assignment_or_rule" /\ OperatorStart(string) > 0

\* C35, amended: the bound limits the nesting of guarded tokenizer calls,
\* not of references alone.  On a fresh depth counter a reference is
\* accepted when its nesting and the tokenizer calls around it are at most
\* 10 together, and refused with NestedTooDeep otherwise: up to 10 deep
\* parsed directly by tokenize_variable_ref, up to 8 deep in the targets and
\* in the value of a plain assignment, up to 7 deep in the prerequisites and
\* in the value of a target-specific assignment.
C35_BoundCountsEnclosingTokenizers ==
  NestedCalled =>
    LET around == IF ret.func = "tokenize_variable_ref" THEN 0
                  ELSE EnclosingCalls(string)
    IN  IF Nesting(string, 1, 0) + around <= 10
        THEN ret.exc = NoExc
        ELSE ret.exc = "NestedTooDeep"

\* a value nested 9 deep was refused in a plain assignment
C35_Witness ==
  /\ NestedCalled
  /\ ret.func = "tokenize_assignment_or_rule"
  /\ string[2] = "="
  /\ Nesting(string, 1, 0) = 9
  /\ ret.exc = "NestedTooDeep"

-----------------------------------------------------------------------------
(* equality and the kind of a Symbol *)

\* C36 as the specification states it: two Symbols of different classes
\* never compare equal: not a Literal and an operator of the same text, not
\* an Expression and a PrerequisiteList (or any two of the Expression
\* classes) of the same children.
C36_KindsNeverEqual ==
  Compared /\ ret.val.token_list[1].cls # ret.val.token_list[2].cls =>
    ~(ret.exc = NoExc /\ ret.val.token_list[3] = Bool(TRUE))

-----------------------------------------------------------------------------
(* termination of tokenize_assignment_or_rule *)

\* the call, run one loop iteration at a time, ended as the call run at once
\* does
StepwiseAgrees ==
  pc = "done" /\ ret.func = "tokenize_assignment_or_rule" =>
    LET r == tokenize_assignment_or_rule(string, Context(0, <<>>, ret.depth0))
    IN  /\ ret.val = r.val
        /\ ret.exc = r.exc
        /\ idx = r.idx
        /\ state_stack = r.state_stack
        /\ depth = r.depth

\* tokenize_assignment_or_rule is running
Parsing == pc = "parsing"

\* the passes that have started at position p of the text
PassesFrom(p) == {i \in 1..Len(locals.starts) : locals.starts[i][2] = p}

\* no stretch of the text is scanned by more than two passes (the left-hand
\* side in assignment mode and in rule mode, what follows a rule operator by
\* tokenize_rule_RHS and by the assignment tokenizers), and a tokenizer
\* called within a pass has come to its end
AtMostTwoPasses ==
  /\ Parsing =>
       /\ \A p \in 0..Len(string) : Cardinality(PassesFrom(p)) <= 2
       /\ Cardinality({i \in 1..Len(locals.starts) :
                         locals.starts[i][1] \in {"lhs", "lhs_rule"}}) <= 2
       /\ Cardinality({i \in 1..Len(locals.starts) :
                         locals.starts[i][1] \in {"rule_RHS", "lhs_assign"}}) <= 2
  /\ ret.exc # "Running"

\* an iteration within a pass reads on: the scanner ends it further on in
\* the text, or where it was with the state machine out of its start state
\* (the character pushed back is read again in another state)
IterationProgresses ==
  Parsing /\ Parsing' /\ locals'.pass = locals.pass =>
    \/ idx' > idx
    \/ /\ idx' = idx
       /\ locals.l.state = "state_start"
       /\ locals'.l.state # "state_start"

\* while the call runs its next iteration can be taken and changes the state:
\* StatementStep is enabled exactly while pc = "parsing"
StepEnabledWhileParsing ==
  Parsing =>
    \/ StepOutcome.pass = "return"
    \/ StepOutcome.ended
    \/ StepOutcome.l # locals.l

\* C37: tokenize_assignment_or_rule terminates: every iteration of the loops
\* of tokenize_statement_LHS, tokenize_rule_RHS and tokenize_assign_RHS reads
\* on in the text or leaves the start state, the comment and reference
\* tokenizers they call come to their end, no stretch of the text is scanned
\* by more than two passes, and the call ends, with the tree or the failure
\* of tokenize_assignment_or_rule.
C37_StatementTerminates ==
  /\ [](AtMostTwoPasses /\ StepwiseAgrees /\ StepEnabledWhileParsing)
  /\ [][IterationProgresses]_vars
  /\ Parsing ~> (pc = "done")

\* the third call of tokenize_statement_LHS has returned, after two
\* checkpoints were restored, and the value of a target-specific assignment
\* is being read
C37_Witness ==
  /\ Parsing
  /\ locals.pass = "target_assign_RHS"
  /\ Len(locals.starts) = 5
  /\ idx > locals.starts[5][2]
=============================================================================
